---- MODULE Spec2Model ----
(***************************************************************************)
(* Query routing and answer synthesis of the customer service chatbot:     *)
(* keyword / model-assisted intent classification, the three handlers of   *)
(* process_query, the conversation memory, the structured-query system     *)
(* with its read-only safety gate, and the document retrieval system with  *)
(* its ingestion, index construction and similarity search.                *)
(*                                                                         *)
(* Text is a sequence of one-character strings, so that substring          *)
(* containment and case folding are computed, not assumed.                 *)
(***************************************************************************)
EXTENDS Integers, Sequences, FiniteSets, TLC

(***************************************************************************)
(* Bounds of the model.                                                    *)
(***************************************************************************)
\* requests started in one behaviour of the orchestrator
MaxRequests == 2
\* largest configured max_history_length
MaxWindow == 1
\* longest keyword list of the classification inputs
MaxKeywords == 2
\* fragments concatenated into one classified query
MaxFrags == 2
\* fragments concatenated into one statement handed to execute_query
MaxSqlFrags == 2
\* entries of the user guides directory
MaxFiles == 2
\* fragments concatenated into one question handed to query_and_format
MaxQuestionFrags == 2
\* rows of one list handed to format_results
MaxRows == 3
\* requests served after a startup
MaxStartupRequests == 1
\* chunks the splitter cuts one document into
SplitParts == 2

\* k of handle_user_guide_query and of rebuild_vectorstore.py
RetrievalK == 3

\* request slots (callers of process_query)
Procs == {1, 2}

(***************************************************************************)
(* Text: str.lower, str.upper, `in`, startswith, endswith, strip.          *)
(***************************************************************************)
LowerAlpha ==
    <<"a","b","c","d","e","f","g","h","i","j","k","l","m","n","o","p","q","r","s","t","u","v","w","x","y","z">>
UpperAlpha ==
    <<"A","B","C","D","E","F","G","H","I","J","K","L","M","N","O","P","Q","R","S","T","U","V","W","X","Y","Z">>

LetterIndex(c, alpha) ==
    IF \E i \in 1..26 : alpha[i] = c
    THEN CHOOSE i \in 1..26 : alpha[i] = c
    ELSE 0

LowerChar(c) ==
    LET i == LetterIndex(c, UpperAlpha) IN IF i = 0 THEN c ELSE LowerAlpha[i]

UpperChar(c) ==
    LET i == LetterIndex(c, LowerAlpha) IN IF i = 0 THEN c ELSE UpperAlpha[i]

Lower(s) == [i \in 1..Len(s) |-> LowerChar(s[i])]

Upper(s) == [i \in 1..Len(s) |-> UpperChar(s[i])]

\* Python `sub in s`
Contains(sub, s) ==
    \E i \in 0..(Len(s) - Len(sub)) : SubSeq(s, i + 1, i + Len(sub)) = sub

StartsWith(s, prefix) ==
    Len(prefix) <= Len(s) /\ SubSeq(s, 1, Len(prefix)) = prefix

EndsWith(s, suffix) ==
    Len(suffix) <= Len(s) /\ SubSeq(s, Len(s) - Len(suffix) + 1, Len(s)) = suffix

IsSpace(c) == c \in {" ", "\n", "\t", "\r"}

\* str.strip(): leading and trailing whitespace removed
Strip(s) ==
    IF \A i \in 1..Len(s) : IsSpace(s[i])
    THEN <<>>
    ELSE LET first == CHOOSE i \in 1..Len(s) :
                          ~IsSpace(s[i]) /\ \A j \in 1..(i - 1) : IsSpace(s[j])
             last == CHOOSE i \in 1..Len(s) :
                          ~IsSpace(s[i]) /\ \A j \in (i + 1)..Len(s) : IsSpace(s[j])
         IN SubSeq(s, first, last)

RECURSIVE Concat(_)
\* "".join(parts)
Concat(parts) ==
    IF parts = <<>> THEN <<>> ELSE Head(parts) \o Concat(Tail(parts))

\* all sequences over S of length at most n
SeqsUpTo(S, n) == UNION {[1..m -> S] : m \in 0..n}

(***************************************************************************)
(* IntentType and keyword classification (chatbot.py).                     *)
(***************************************************************************)
USER_GUIDE == "USER_GUIDE"
CONTRACT_INFO == "CONTRACT_INFO"
GENERAL == "GENERAL"

IntentType == {USER_GUIDE, CONTRACT_INFO, GENERAL}

\* intent.value
intent_value(intent) ==
    CASE intent = USER_GUIDE -> "user_guide"
      [] intent = CONTRACT_INFO -> "contract_info"
      [] intent = GENERAL -> "general"

\* `keyword in query_lower`: the keyword of the configuration is not lowered
keyword_in_query_nolower(keyword, query_lower) == Contains(keyword, query_lower)

\* `keyword.lower() in query_lower`
keyword_in_query(keyword, query_lower) == Contains(Lower(keyword), query_lower)

\* sum(1 for keyword in keywords if keyword.lower() in query_lower)
keyword_score(keywords, query_lower) ==
    Cardinality({i \in 1..Len(keywords) : keyword_in_query(keywords[i], query_lower)})

\* the decision with `>=` in place of `>`
decide_intent_ge(user_guide_score, contract_score) ==
    IF contract_score >= user_guide_score THEN CONTRACT_INFO
    ELSE IF user_guide_score > 0 THEN USER_GUIDE
    ELSE GENERAL

\* the if / elif / else on the two scores
decide_intent(user_guide_score, contract_score) ==
    IF contract_score > user_guide_score THEN CONTRACT_INFO
    ELSE IF user_guide_score > 0 THEN USER_GUIDE
    ELSE GENERAL

classify_intent(query, keywords) ==
    LET query_lower == Lower(query)
        user_guide_score == keyword_score(keywords.user_guide, query_lower)
        contract_score == keyword_score(keywords.contract, query_lower)
    IN decide_intent(user_guide_score, contract_score)

(***************************************************************************)
(* Structured-query system (sql_query_system.py).                          *)
(* A row is the ordered list of its <<key, str(value)>> pairs.             *)
(***************************************************************************)
unsafe_keywords ==
    << <<"I","N","S","E","R","T">>,
       <<"U","P","D","A","T","E">>,
       <<"D","E","L","E","T","E">>,
       <<"D","R","O","P">>,
       <<"A","L","T","E","R">>,
       <<"C","R","E","A","T","E">>,
       <<"T","R","U","N","C","A","T","E">> >>
sql_keywords ==
    << <<"S","E","L","E","C","T">>,
       <<"I","N","S","E","R","T">>,
       <<"U","P","D","A","T","E">>,
       <<"D","E","L","E","T","E">>,
       <<"W","I","T","H">>,
       <<"C","R","E","A","T","E">>,
       <<"D","R","O","P">>,
       <<"A","L","T","E","R">> >>

MockSqlExpiration ==
    <<"S","E","L","E","C","T"," ","c","o","n","t","r","a","c","t","_","i","d",","," ","c","u","s",
    "t","o","m","e","r","_","n","a","m","e",","," ","e","x","p","i","r","a","t","i","o","n","_","d",
    "a","t","e"," ","F","R","O","M"," ","c","o","n","t","r","a","c","t","s"," ","W","H","E","R","E",
    " ","c","u","s","t","o","m","e","r","_","n","a","m","e"," ","="," ","'","C","u","s","t","o","m",
    "e","r"," ","N","a","m","e","'",";">>

MockSqlModules ==
    <<"\n","S","E","L","E","C","T"," ","c",".","c","u","s","t","o","m","e","r","_","n","a","m","e",
    ","," ","m",".","m","o","d","u","l","e","_","n","a","m","e",","," ","c","m",".","p","u","r","c",
    "h","a","s","e","d","_","d","a","t","e","\n","F","R","O","M"," ","c","o","n","t","r","a","c",
    "t","s"," ","c","\n","J","O","I","N"," ","c","o","n","t","r","a","c","t","_","m","o","d","u",
    "l","e","s"," ","c","m"," ","O","N"," ","c",".","c","o","n","t","r","a","c","t","_","i","d"," ",
    "="," ","c","m",".","c","o","n","t","r","a","c","t","_","i","d","\n","J","O","I","N"," ","m",
    "o","d","u","l","e","s"," ","m"," ","O","N"," ","c","m",".","m","o","d","u","l","e","_","i","d",
    " ","="," ","m",".","m","o","d","u","l","e","_","i","d","\n","W","H","E","R","E"," ","c",".",
    "c","u","s","t","o","m","e","r","_","n","a","m","e"," ","="," ","'","C","u","s","t","o","m","e",
    "r"," ","N","a","m","e","'",";","\n">>

MockSqlPricing ==
    <<"S","E","L","E","C","T"," ","c","u","s","t","o","m","e","r","_","n","a","m","e",","," ","p",
    "r","i","c","i","n","g"," ","F","R","O","M"," ","c","o","n","t","r","a","c","t","s"," ","W","H",
    "E","R","E"," ","c","u","s","t","o","m","e","r","_","n","a","m","e"," ","="," ","'","C","u","s",
    "t","o","m","e","r"," ","N","a","m","e","'",";">>

MockSqlDefault ==
    <<"S","E","L","E","C","T"," ","*"," ","F","R","O","M"," ","c","o","n","t","r","a","c","t","s",
    " ","W","H","E","R","E"," ","c","u","s","t","o","m","e","r","_","n","a","m","e"," ","="," ","'",
    "C","u","s","t","o","m","e","r"," ","N","a","m","e","'"," ","L","I","M","I","T"," ","5",";">>

UnsafeQueryMessage ==
    <<"Q","u","e","r","y"," ","c","o","n","t","a","i","n","s"," ","u","n","s","a","f","e"," ","o",
    "p","e","r","a","t","i","o","n","s"," ","(","I","N","S","E","R","T",","," ","U","P","D","A","T",
    "E",","," ","D","E","L","E","T","E",","," ","D","R","O","P",")">>

NoResultsMessage ==
    <<"N","o"," ","r","e","s","u","l","t","s"," ","f","o","u","n","d",".">>

ContractErrorPrefix ==
    <<"I"," ","a","p","o","l","o","g","i","z","e",","," ","b","u","t"," ","I"," ","e","n","c","o",
    "u","n","t","e","r","e","d"," ","a","n"," ","e","r","r","o","r"," ","w","h","i","l","e"," ","l",
    "o","o","k","i","n","g"," ","u","p"," ","y","o","u","r"," ","c","o","n","t","r","a","c","t"," ",
    "i","n","f","o","r","m","a","t","i","o","n","."," ","P","l","e","a","s","e"," ","c","o","n","t",
    "a","c","t"," ","o","u","r"," ","s","u","p","p","o","r","t"," ","t","e","a","m"," ","f","o","r",
    " ","a","s","s","i","s","t","a","n","c","e","."," ","E","r","r","o","r",":"," ">>

MockRowsModules ==
    << << <<<<"c","u","s","t","o","m","e","r","_","n","a","m","e">>, <<"A","C","M","E"," ","C","o","r","p">>>>,
         <<<<"m","o","d","u","l","e","_","n","a","m","e">>, <<"I","n","v","e","n","t","o","r","y"," ","M","a","n","a","g","e","m","e","n","t">>>>,
         <<<<"p","u","r","c","h","a","s","e","d","_","d","a","t","e">>, <<"2","0","2","3","-","0","1","-","1","5">>>> >>,
       << <<<<"c","u","s","t","o","m","e","r","_","n","a","m","e">>, <<"A","C","M","E"," ","C","o","r","p">>>>,
         <<<<"m","o","d","u","l","e","_","n","a","m","e">>, <<"R","e","p","o","r","t","i","n","g"," ","S","u","i","t","e">>>>,
         <<<<"p","u","r","c","h","a","s","e","d","_","d","a","t","e">>, <<"2","0","2","3","-","0","3","-","2","2">>>> >> >>

MockRowsExpiration ==
    << << <<<<"c","o","n","t","r","a","c","t","_","i","d">>, <<"1","2","3","4","5">>>>,
         <<<<"c","u","s","t","o","m","e","r","_","n","a","m","e">>, <<"A","C","M","E"," ","C","o","r","p">>>>,
         <<<<"e","x","p","i","r","a","t","i","o","n","_","d","a","t","e">>, <<"2","0","2","4","-","1","2","-","3","1">>>> >> >>

MockRowsPricing ==
    << << <<<<"c","u","s","t","o","m","e","r","_","n","a","m","e">>, <<"A","C","M","E"," ","C","o","r","p">>>>,
         <<<<"p","r","i","c","i","n","g">>, <<"2","5","0","0","0",".","0">>>> >> >>

MockRowsDefault ==
    << << <<<<"c","o","n","t","r","a","c","t","_","i","d">>, <<"1","2","3","4","5">>>>,
         <<<<"c","u","s","t","o","m","e","r","_","n","a","m","e">>, <<"A","C","M","E"," ","C","o","r","p">>>>,
         <<<<"e","x","p","i","r","a","t","i","o","n","_","d","a","t","e">>, <<"2","0","2","4","-","1","2","-","3","1">>>>,
         <<<<"p","r","i","c","i","n","g">>, <<"2","5","0","0","0",".","0">>>>,
         <<<<"s","t","a","t","u","s">>, <<"A","c","t","i","v","e">>>> >> >>

MockSqlCreatedAt ==
    <<"S","E","L","E","C","T"," ","c","u","s","t","o","m","e","r","_","n","a","m","e",","," ","c",
    "r","e","a","t","e","d","_","a","t"," ","F","R","O","M"," ","c","o","n","t","r","a","c","t","s",
    " ","L","I","M","I","T"," ","5",";">>

DbErrorMessage ==
    <<"c","o","n","n","e","c","t","i","o","n"," ","r","e","f","u","s","e","d">>

KwExpiration == <<"e","x","p","i","r","a","t","i","o","n">>
KwExpires == <<"e","x","p","i","r","e","s">>
KwModules == <<"m","o","d","u","l","e","s">>
KwPurchased == <<"p","u","r","c","h","a","s","e","d">>
KwPricing == <<"p","r","i","c","i","n","g">>
KwCost == <<"c","o","s","t">>
MarkerSQLQuery == <<"S","Q","L","Q","u","e","r","y",":">>
\* the grave accent, which a TLA+ string cannot hold
Grave == "GRAVE"

FenceSql == <<Grave,Grave,Grave,"s","q","l">>
Fence == <<Grave,Grave,Grave>>
prefixes_to_remove ==
    << <<"S","Q","L",":">>, <<"Q","u","e","r","y",":">>, <<"s","q","l",":">>, <<"q","u","e","r","y",":">> >>

\* an exception: raised or not, with str(e)
NoExc == [raised |-> FALSE, msg |-> <<>>]

Raise(msg) == [raised |-> TRUE, msg |-> msg]

\* the gate without the upper-casing of the statement
is_safe_query_case_sensitive(sql_query) ==
    ~\E i \in 1..Len(unsafe_keywords) : Contains(unsafe_keywords[i], sql_query)

\* _is_safe_query: no denylisted keyword in sql_query.upper()
is_safe_query(sql_query) ==
    LET query_upper == Upper(sql_query)
    IN ~\E i \in 1..Len(unsafe_keywords) : Contains(unsafe_keywords[i], query_upper)

generate_mock_results(sql_query) ==
    LET lowered == Lower(sql_query)
    IN IF Contains(KwModules, lowered) THEN MockRowsModules
       ELSE IF Contains(KwExpiration, lowered) THEN MockRowsExpiration
       ELSE IF Contains(KwPricing, lowered) THEN MockRowsPricing
       ELSE MockRowsDefault

\* a mock translator whose default template selects the column created_at
generate_mock_sql_created_at(question) ==
    IF Contains(KwExpiration, Lower(question)) THEN MockSqlExpiration
    ELSE MockSqlCreatedAt

generate_mock_sql(question) ==
    LET question_lower == Lower(question)
    IN IF Contains(KwExpiration, question_lower) \/ Contains(KwExpires, question_lower)
       THEN MockSqlExpiration
       ELSE IF Contains(KwModules, question_lower) \/ Contains(KwPurchased, question_lower)
       THEN MockSqlModules
       ELSE IF Contains(KwPricing, question_lower) \/ Contains(KwCost, question_lower)
       THEN MockSqlPricing
       ELSE MockSqlDefault

\* What the live connection does with a statement: it fails (connect, execute
\* or fetch raises) or it returns rows.
DbOutcomes ==
    { [ok |-> FALSE, rows |-> <<>>],
      [ok |-> TRUE, rows |-> <<>>],
      [ok |-> TRUE, rows |-> MockRowsModules] }

\* an execute_query that lets the failure of the connection out
execute_query_propagating(sql_query, engine, db) ==
    IF ~is_safe_query(sql_query)
    THEN [exc |-> Raise(UnsafeQueryMessage), rows |-> <<>>, sent |-> <<>>, mock |-> FALSE]
    ELSE IF engine = "None"
    THEN [exc |-> NoExc, rows |-> generate_mock_results(sql_query), sent |-> <<>>,
          mock |-> TRUE]
    ELSE [exc |-> IF db.ok THEN NoExc ELSE Raise(DbErrorMessage),
          rows |-> IF db.ok THEN db.rows ELSE <<>>,
          sent |-> <<sql_query>>, mock |-> FALSE]

\* execute_query: exc is the exception it raises, rows what it returns, sent the
\* statements handed to connection.execute, mock whether the rows are mock rows.
\* An empty statement has no rows to fetch: the driver refuses it or the result
\* has no row set, and the except clause returns [].
execute_query(sql_query, engine, db) ==
    IF ~is_safe_query(sql_query)
    THEN [exc |-> Raise(UnsafeQueryMessage), rows |-> <<>>, sent |-> <<>>, mock |-> FALSE]
    ELSE IF engine = "None"
    THEN [exc |-> NoExc, rows |-> generate_mock_results(sql_query), sent |-> <<>>,
          mock |-> TRUE]
    ELSE [exc |-> NoExc, rows |-> IF db.ok /\ sql_query # <<>> THEN db.rows ELSE <<>>,
          sent |-> <<sql_query>>, mock |-> FALSE]

RECURSIVE Join(_, _)
\* sep.join(lines)
Join(lines, sep) ==
    IF lines = <<>> THEN <<>>
    ELSE IF Len(lines) = 1 THEN lines[1]
    ELSE lines[1] \o sep \o Join(Tail(lines), sep)

Digits == <<"0","1","2","3","4","5","6","7","8","9">>

RECURSIVE IntToText(_)
\* str(i) of a non-negative integer
IntToText(i) ==
    IF i < 10 THEN <<Digits[i + 1]>>
    ELSE IntToText(i \div 10) \o <<Digits[(i % 10) + 1]>>

\* f"{key}: {value}"
KeyValueLine(pair) == pair[1] \o <<":", " ">> \o pair[2]

\* the lines of one row of the multi-row layout
ResultBlock(i, result) ==
    << <<"\n","R","e","s","u","l","t"," ">> \o IntToText(i) \o <<":">> >>
    \o [j \in 1..Len(result) |-> <<" ", " ">> \o KeyValueLine(result[j])]

\* a format_results that numbers a single row as well
format_results_always_numbered(results) ==
    IF results = <<>> THEN NoResultsMessage
    ELSE Join(Concat([i \in 1..Len(results) |-> ResultBlock(i, results[i])]), <<"\n">>)

format_results(results) ==
    IF results = <<>> THEN NoResultsMessage
    ELSE IF Len(results) = 1
    THEN Join([j \in 1..Len(results[1]) |-> KeyValueLine(results[1][j])], <<"\n">>)
    ELSE Join(Concat([i \in 1..Len(results) |-> ResultBlock(i, results[i])]), <<"\n">>)

\* offset (from 0) of the first occurrence of sub in s, -1 when there is none
Find(sub, s) ==
    IF Contains(sub, s)
    THEN CHOOSE i \in 0..(Len(s) - Len(sub)) :
             /\ SubSeq(s, i + 1, i + Len(sub)) = sub
             /\ \A j \in 0..(i - 1) : SubSeq(s, j + 1, j + Len(sub)) # sub
    ELSE -1

\* s[n:]
DropFirst(s, n) == SubSeq(s, n + 1, Len(s))

\* s[:-n]
DropLast(s, n) == SubSeq(s, 1, Len(s) - n)

\* re.search(f'({keyword}\\s+.*)', s, IGNORECASE | DOTALL): the offsets where
\* the keyword, in any casing, is followed by whitespace
KeywordMatchOffsets(keyword, s) ==
    {i \in 0..(Len(s) - Len(keyword) - 1) :
        /\ IsSpace(s[i + Len(keyword) + 1])
        /\ Upper(SubSeq(s, i + 1, i + Len(keyword))) = keyword}

Min(S) == CHOOSE x \in S : \A y \in S : x <= y

\* the loop over sql_keywords: the first keyword of the list that matches
\* decides, and the text is kept from its leftmost match
extract_statement(sql_query) ==
    LET hits == {k \in 1..Len(sql_keywords) :
                    KeywordMatchOffsets(sql_keywords[k], sql_query) # {}}
    IN IF hits = {} THEN sql_query
       ELSE LET keyword == sql_keywords[Min(hits)]
            IN Strip(DropFirst(sql_query, Min(KeywordMatchOffsets(keyword, sql_query))))

\* the loop over prefixes_to_remove, with its break
remove_prefix(sql_query) ==
    LET hits == {k \in 1..Len(prefixes_to_remove) :
                    StartsWith(sql_query, prefixes_to_remove[k])}
    IN IF hits = {} THEN sql_query
       ELSE Strip(DropFirst(sql_query, Len(prefixes_to_remove[Min(hits)])))

\* `if 'SQLQuery:' in sql_query`: everything after the first marker
after_marker(s) ==
    IF Contains(MarkerSQLQuery, s)
    THEN Strip(DropFirst(s, Find(MarkerSQLQuery, s) + Len(MarkerSQLQuery)))
    ELSE s

\* the opening code-fence marker
strip_fence_start(s) ==
    IF StartsWith(s, FenceSql) THEN Strip(DropFirst(s, 6))
    ELSE IF StartsWith(s, Fence) THEN Strip(DropFirst(s, 3))
    ELSE s

\* a clean-up that leaves the closing code-fence marker in place
strip_fence_end_kept(s) == s

\* the closing code-fence marker
strip_fence_end(s) ==
    IF EndsWith(s, Fence) THEN Strip(DropLast(s, 3)) ELSE s

\* the clean-up of the chain's output in natural_language_to_sql
clean_sql_query(raw) ==
    extract_statement(remove_prefix(strip_fence_end(strip_fence_start(
        after_marker(Strip(raw))))))

\* an except clause that answers a failed chain with the mock statement
natural_language_to_sql_mock_on_failure(question, db, chain) ==
    IF db = "None" \/ chain.raised
    THEN [sql |-> generate_mock_sql(question), failed |-> chain.raised /\ db # "None",
          llm_used |-> db # "None"]
    ELSE [sql |-> clean_sql_query(chain.text), failed |-> FALSE, llm_used |-> TRUE]

\* natural_language_to_sql: chain is what create_sql_query_chain(...).invoke
\* does, it raises or returns text
natural_language_to_sql(question, db, chain) ==
    IF db = "None"
    THEN [sql |-> generate_mock_sql(question), failed |-> FALSE, llm_used |-> FALSE]
    ELSE IF chain.raised
    THEN [sql |-> <<>>, failed |-> TRUE, llm_used |-> TRUE]
    ELSE [sql |-> clean_sql_query(chain.text), failed |-> FALSE, llm_used |-> TRUE]

\* the last two statements of query_and_format: tr is the translation, ex the
\* execution; exc is the exception that leaves query_and_format
format_step(tr, ex, dbres) ==
    [exc |-> ex.exc,
     sql_query |-> tr.sql,
     formatted |-> IF ex.exc.raised THEN <<>> ELSE format_results(ex.rows),
     rows |-> ex.rows,
     sent |-> ex.sent,
     mock |-> ex.mock,
     translate_failed |-> tr.failed,
     execute_failed |-> ~ex.exc.raised /\ ex.sent # <<>> /\ ~dbres.ok,
     gate_blocked |-> ex.exc.raised]

\* the second statement of query_and_format
execute_step(tr, engine, dbres) ==
    format_step(tr, execute_query(tr.sql, engine, dbres), dbres)

\* query_and_format: translate, execute, format
query_and_format(question, engine, db, chain, dbres) ==
    execute_step(natural_language_to_sql(question, db, chain), engine, dbres)

(***************************************************************************)
(* The generative model, the retriever and the query chain are opaque:     *)
(* each call raises or returns text.                                       *)
(***************************************************************************)
TokUserGuide ==
    <<"U","S","E","R","_","G","U","I","D","E">>

TokContract ==
    <<"C","O","N","T","R","A","C","T">>

QueryExport ==
    <<"H","o","w"," ","d","o"," ","I"," ","e","x","p","o","r","t"," ","a"," ","r","e","p","o","r",
    "t","?">>

QueryExpire ==
    <<"W","h","e","n"," ","d","o","e","s"," ","m","y"," ","c","o","n","t","r","a","c","t"," ","e",
    "x","p","i","r","e","?">>

QueryHello ==
    <<"h","e","l","l","o">>

KwExport ==
    <<"e","x","p","o","r","t">>

KwReport ==
    <<"R","e","p","o","r","t">>

KwContractWord ==
    <<"c","o","n","t","r","a","c","t">>

KwExpire ==
    <<"e","x","p","i","r","e">>

AnswerText ==
    <<"H","e","r","e"," ","i","s"," ","w","h","a","t"," ","I"," ","f","o","u","n","d",".">>

LlmErrorMessage ==
    <<"C","o","n","n","e","c","t","i","o","n"," ","e","r","r","o","r",".">>

RetrievalErrorMessage ==
    <<"E","m","b","e","d","d","i","n","g"," ","r","e","q","u","e","s","t"," ","f","a","i","l","e",
    "d",".">>

ChainFenced ==
    <<Grave,Grave,Grave,"s","q","l","\n","S","E","L","E","C","T"," ","*"," ","F","R","O","M"," ","c","o",
    "n","t","r","a","c","t","s",";","\n",Grave,Grave,Grave>>

ChainUnsafe ==
    <<"D","e","L","e","T","e"," ","F","R","O","M"," ","c","o","n","t","r","a","c","t","s",";">>

ClassUserGuide ==
    <<"u","s","e","r","_","g","u","i","d","e">>

ClassContract ==
    <<" ","C","O","N","T","R","A","C","T","_","I","N","F","O","\n">>

ClassGeneral ==
    <<"G","E","N","E","R","A","L">>

ClassBoth ==
    <<"C","O","N","T","R","A","C","T","_","I","N","F","O"," ","o","r"," ","U","S","E","R","_","G",
    "U","I","D","E">>

\* llm.invoke in a handler: it raises, or response.content is the answer
LlmOutcomes ==
    { [raised |-> TRUE, msg |-> LlmErrorMessage, text |-> <<>>],
      [raised |-> FALSE, msg |-> <<>>, text |-> AnswerText] }

\* llm.invoke in classify_intent_with_llm: it raises, or response.content is
\* not a string (.strip() raises), or response.content is text
LlmClassifyOutcomes ==
    { [raised |-> TRUE, is_text |-> TRUE, text |-> <<>>],
      [raised |-> FALSE, is_text |-> FALSE, text |-> <<>>] }
    \cup { [raised |-> FALSE, is_text |-> TRUE, text |-> t] :
             t \in {ClassUserGuide, ClassContract, ClassGeneral, ClassBoth} }

\* rag_system.get_context_for_query: it raises or returns the context
RetrievalOutcomes ==
    { [raised |-> TRUE, msg |-> RetrievalErrorMessage],
      [raised |-> FALSE, msg |-> <<>>] }

\* create_sql_query_chain(llm, db).invoke: it raises or returns text
ChainOutcomes ==
    { [raised |-> TRUE, text |-> <<>>] }
    \cup { [raised |-> FALSE, text |-> t] : t \in {ChainFenced, ChainUnsafe} }

\* the keyword lists of the configuration the orchestrator runs with
DefaultKeywords ==
    [user_guide |-> <<KwExport, KwReport>>, contract |-> <<KwContractWord, KwExpire>>]

\* the queries of the orchestrator's requests
Queries == {QueryExport, QueryExpire, QueryHello}

(***************************************************************************)
(* Document retrieval system (rag_system.py).  The loaders, the splitter,  *)
(* the embedding model and the vector store are opaque: a call to one of   *)
(* them is recorded as a step and succeeds or raises.                      *)
(***************************************************************************)
StoreTypeChroma ==
    <<"c","h","r","o","m","a","d","b">>

StoreTypeFaiss ==
    <<"F","A","I","S","S">>

StoreTypeOther ==
    <<"m","i","l","v","u","s">>

SuffixMdCaps ==
    <<".","M","D">>

SuffixDocx ==
    <<".","d","o","c","x">>

LoaderErrorMessage ==
    <<"E","r","r","o","r"," ","l","o","a","d","i","n","g"," ","f","i","l","e">>

EmbedErrorMessage ==
    <<"E","m","b","e","d","d","i","n","g"," ","r","e","q","u","e","s","t"," ","f","a","i","l","e",
    "d",".">>

PersistErrorMessage ==
    <<"P","e","r","m","i","s","s","i","o","n"," ","d","e","n","i","e","d">>

GuideSource ==
    <<"g","u","i","d","e",".","t","x","t">>

GuideContent ==
    <<"O","p","e","n"," ","R","e","p","o","r","t","s",","," ","t","h","e","n"," ","E","x","p","o",
    "r","t",".">>

\* the string literals of rag_system.py
RagText ==
    [ chromadb |->
          <<"c","h","r","o","m","a","d","b">>,
      faiss |->
          <<"f","a","i","s","s">>,
      txt |->
          <<".","t","x","t">>,
      pdf |->
          <<".","p","d","f">>,
      md |->
          <<".","m","d">>,
      html |->
          <<".","h","t","m","l">>,
      not_found |->
          <<"U","s","e","r"," ","g","u","i","d","e","s"," ","d","i","r","e","c","t","o",
          "r","y"," ","n","o","t"," ","f","o","u","n","d",":"," ",".","/","d","a","t",
          "a","/","u","s","e","r","_","g","u","i","d","e","s">>,
      unsupported_format |->
          <<"U","n","s","u","p","p","o","r","t","e","d"," ","f","i","l","e"," ","f","o",
          "r","m","a","t",":"," ">>,
      no_documents |->
          <<"N","o"," ","d","o","c","u","m","e","n","t","s"," ","l","o","a","d","e","d",
          "."," ","C","a","l","l"," ","l","o","a","d","_","d","o","c","u","m","e","n",
          "t","s","(",")"," ","f","i","r","s","t",".">>,
      unsupported_store |->
          <<"U","n","s","u","p","p","o","r","t","e","d"," ","v","e","c","t","o","r"," ",
          "s","t","o","r","e"," ","t","y","p","e",":"," ">>,
      not_initialized |->
          <<"V","e","c","t","o","r"," ","s","t","o","r","e"," ","n","o","t"," ","i","n",
          "i","t","i","a","l","i","z","e","d","."," ","C","a","l","l"," ","c","r","e",
          "a","t","e","_","v","e","c","t","o","r","_","s","t","o","r","e","(",")"," ",
          "o","r"," ","l","o","a","d","_","e","x","i","s","t","i","n","g","_","v","e",
          "c","t","o","r","_","s","t","o","r","e","(",")",".">>,
      loaded |->
          <<"L","o","a","d","e","d"," ","e","x","i","s","t","i","n","g"," ","v","e","c",
          "t","o","r"," ","s","t","o","r","e">>,
      created |->
          <<"C","r","e","a","t","e","d"," ","n","e","w"," ","v","e","c","t","o","r"," ",
          "s","t","o","r","e"," ","w","i","t","h"," ">>,
      documents |->
          <<" ","d","o","c","u","m","e","n","t","s">>,
      source |->
          <<"[","S","o","u","r","c","e"," ">> ]

\* vector_config['type'] as written in the configuration
StoreTypes == {StoreTypeChroma, StoreTypeFaiss, StoreTypeOther}

\* documents_config['supported_formats']
supported_formats == <<RagText.txt, SuffixMdCaps, SuffixDocx>>

\* the keys of the loaders dict of _load_single_document
loaders == {RagText.txt, RagText.pdf, RagText.md, RagText.html}

\* `x in list`
InList(x, list) == \E i \in 1..Len(list) : list[i] = x

\* What guides_path.rglob('*') can enumerate: suffix is file_path.suffix,
\* is_file what file_path.is_file() gives, loads whether loader.load() returns,
\* pages the number of Documents it returns.
FileTxt == [suffix |-> RagText.txt, is_file |-> TRUE, loads |-> TRUE, pages |-> 1]

FileTxtCorrupt == [suffix |-> RagText.txt, is_file |-> TRUE, loads |-> FALSE, pages |-> 0]

FileMdCaps == [suffix |-> SuffixMdCaps, is_file |-> TRUE, loads |-> TRUE, pages |-> 2]

FileDocx == [suffix |-> SuffixDocx, is_file |-> TRUE, loads |-> TRUE, pages |-> 1]

FilePdf == [suffix |-> RagText.pdf, is_file |-> TRUE, loads |-> TRUE, pages |-> 1]

\* a directory whose name ends in .txt
FileDir == [suffix |-> RagText.txt, is_file |-> FALSE, loads |-> FALSE, pages |-> 0]

FileKinds == {FileTxt, FileTxtCorrupt, FileMdCaps, FileDocx, FilePdf, FileDir}

\* the user guides directory: missing, or holding up to MaxFiles entries
Corpora ==
    { [exists |-> FALSE, files |-> <<>>] }
    \cup { [exists |-> TRUE, files |-> fs] : fs \in SeqsUpTo(FileKinds, MaxFiles) }

\* Chroma.from_documents / FAISS.from_documents and save_local: the embedding
\* and the writing of the index each succeed or raise
BuildOutcomes == [embed_ok : BOOLEAN, persist_ok : BOOLEAN]

\* vector_store.similarity_search: it raises or returns Documents
SearchOutcomes ==
    { [raised |-> TRUE, msg |-> EmbedErrorMessage, docs |-> <<>>],
      [raised |-> FALSE, msg |-> <<>>, docs |-> <<>>],
      [raised |-> FALSE, msg |-> <<>>,
       docs |-> << [source |-> GuideSource, content |-> GuideContent] >>] }

\* the result of a method of RAGSystem: self after the call, the exception that
\* leaves it, the value it returns, and its steps: "attach" (the store was
\* opened), "attach_failed" (opening it raised), "load" (the directory was
\* read), "split", "embed", "persist" (the build), "search" 
RagReturn(self, value, steps) ==
    [self |-> self, exc |-> NoExc, value |-> value, steps |-> steps]

RagRaise(self, msg, steps) ==
    [self |-> self, exc |-> Raise(msg), value |-> <<>>, steps |-> steps]

\* _load_single_document of the file enumerated at position i
load_single_document(file, i) ==
    IF Lower(file.suffix) \notin loaders
    THEN [exc |-> Raise(RagText.unsupported_format \o Lower(file.suffix)), docs |-> <<>>]
    ELSE IF ~file.loads
    THEN [exc |-> Raise(LoaderErrorMessage), docs |-> <<>>]
    ELSE [exc |-> NoExc, docs |-> [n \in 1..file.pages |-> [source |-> i, page |-> n]]]

\* a loop body in which a failing file empties loaded_docs
extend_loaded_docs_reset(loaded_docs, r) ==
    IF r.exc.raised THEN <<>> ELSE loaded_docs \o r.docs

\* the try / except of the loop body: loaded_docs.extend(docs), or the warning
extend_loaded_docs(loaded_docs, r) ==
    IF r.exc.raised THEN loaded_docs ELSE loaded_docs \o r.docs

\* `file_path.is_file() and file_path.suffix in supported_formats`
accepted(file) == file.is_file /\ InList(file.suffix, supported_formats)

RECURSIVE load_loop(_, _, _)
\* the for loop of load_documents from position i on
load_loop(files, i, loaded_docs) ==
    IF i > Len(files) THEN loaded_docs
    ELSE load_loop(files, i + 1,
                   IF accepted(files[i])
                   THEN extend_loaded_docs(loaded_docs, load_single_document(files[i], i))
                   ELSE loaded_docs)

\* the last two statements of load_documents
set_documents(self, loaded_docs) ==
    RagReturn([self EXCEPT !.documents = loaded_docs], Len(loaded_docs), <<"load">>)

load_documents(self) ==
    IF ~self.corpus.exists
    THEN RagRaise(self, RagText.not_found, <<>>)
    ELSE set_documents(self, load_loop(self.corpus.files, 1, <<>>))

\* create_vector_store without the check of self.documents
create_vector_store_unchecked(self, build) ==
    IF build.embed_ok /\ build.persist_ok
    THEN RagReturn([self EXCEPT !.vector_store = "built"], <<>>,
                   <<"split", "embed", "persist">>)
    ELSE RagRaise(self, EmbedErrorMessage, <<"split", "embed">>)

\* create_vector_store with _create_chroma_store and _create_faiss_store
create_vector_store(self, build) ==
    IF self.documents = <<>>
    THEN RagRaise(self, RagText.no_documents, <<>>)
    ELSE IF Lower(self.store_type) = RagText.chromadb
    THEN IF ~build.embed_ok
         THEN RagRaise(self, EmbedErrorMessage, <<"split", "embed">>)
         ELSE IF ~build.persist_ok
         THEN RagRaise(self, PersistErrorMessage, <<"split", "embed", "persist">>)
         ELSE RagReturn([self EXCEPT !.vector_store = "built"], <<>>,
                        <<"split", "embed", "persist">>)
    ELSE IF Lower(self.store_type) = RagText.faiss
    THEN IF ~build.embed_ok
         THEN RagRaise(self, EmbedErrorMessage, <<"split", "embed">>)
         ELSE IF ~build.persist_ok
         THEN RagRaise([self EXCEPT !.vector_store = "built"], PersistErrorMessage,
                       <<"split", "embed", "persist">>)
         ELSE RagReturn([self EXCEPT !.vector_store = "built"], <<>>,
                        <<"split", "embed", "persist">>)
    ELSE RagRaise(self, RagText.unsupported_store \o Lower(self.store_type), <<"split">>)

\* load_existing_vector_store: attach_ok tells whether Chroma(...) or
\* FAISS.load_local(...) returns a store; whatever it raises is caught
load_existing_vector_store(self, attach_ok) ==
    IF Lower(self.store_type) \in {RagText.chromadb, RagText.faiss}
    THEN IF attach_ok
         THEN RagReturn([self EXCEPT !.vector_store = "attached"], TRUE, <<"attach">>)
         ELSE RagReturn(self, FALSE, <<"attach_failed">>)
    ELSE RagReturn(self, FALSE, <<>>)

\* f"Created new vector store with {doc_count} documents"
StatusCreated(doc_count) ==
    RagText.created \o IntToText(doc_count) \o RagText.documents

\* initialize_or_load after create_vector_store: a the attach, l the load, c the build
init_after_build(a, l, c) ==
    [self |-> c.self,
     exc |-> c.exc,
     value |-> IF c.exc.raised THEN <<>> ELSE StatusCreated(l.value),
     steps |-> a.steps \o l.steps \o c.steps]

\* initialize_or_load after load_documents
init_after_load(a, l, build) ==
    IF l.exc.raised
    THEN [self |-> l.self, exc |-> l.exc, value |-> <<>>, steps |-> a.steps \o l.steps]
    ELSE init_after_build(a, l, create_vector_store(l.self, build))

\* an initialize_or_load that ingests and builds whatever the attach returned
init_after_attach_always_build(a, build) ==
    init_after_load(a, load_documents(a.self), build)

\* the if / else of initialize_or_load on what load_existing_vector_store returned
init_after_attach(a, build) ==
    IF a.value
    THEN RagReturn(a.self, RagText.loaded, a.steps)
    ELSE init_after_load(a, load_documents(a.self), build)

initialize_or_load(self, attach_ok, build) ==
    init_after_attach(load_existing_vector_store(self, attach_ok), build)

\* a retrieval that calls the store without looking at the handle
retrieve_relevant_documents_unchecked(self, search) ==
    IF search.raised
    THEN RagRaise(self, search.msg, <<"search">>)
    ELSE RagReturn(self, search.docs, <<"search">>)

retrieve_relevant_documents(self, search) ==
    IF self.vector_store = "None"
    THEN RagRaise(self, RagText.not_initialized, <<>>)
    ELSE IF search.raised
    THEN RagRaise(self, search.msg, <<"search">>)
    ELSE RagReturn(self, search.docs, <<"search">>)

\* f"[Source {i}: {source}]\n{content}"
context_part(i, doc) ==
    RagText.source \o IntToText(i) \o <<":", " ">> \o doc.source \o <<"]", "\n">>
    \o doc.content

\* the formatting of get_context_for_query; r is what the retrieval gave
format_context(r) ==
    IF r.exc.raised THEN r
    ELSE [r EXCEPT !.value = Join([i \in 1..Len(r.value) |-> context_part(i, r.value[i])],
                                  <<"\n", "\n">>)]

get_context_for_query(self, search) ==
    format_context(retrieve_relevant_documents(self, search))

\* no method of rag_system has been called yet
NoRagCall == [op |-> "none", exc |-> NoExc, value |-> <<>>, steps |-> <<>>]

\* RAGSystem.__init__: no store, no documents; store_type and corpus are the
\* configuration and the directory it runs with
FreshRag(store_type, corpus) ==
    [store_type |-> store_type, corpus |-> corpus, vector_store |-> "None",
     documents |-> <<>>]

\* the rag_system of a constructed chatbot: initialize_or_load attached to the
\* persisted index
RagOfChatbot ==
    [core |-> [FreshRag(StoreTypeChroma, [exists |-> TRUE, files |-> <<FileTxt>>])
                  EXCEPT !.vector_store = "attached"],
     initialized |-> TRUE,
     last |-> NoRagCall]

\* no direct call of sql_system has been made yet
NoCall == [op |-> "none", arg |-> <<>>, result |-> <<>>]

(***************************************************************************)
(* Construction of the orchestrator and its status snapshot (chatbot.py,   *)
(* sql_query_system.py, webapp.py).                                        *)
(***************************************************************************)
\* the string literals of _initialize_connection and _initialize_llm
InitText ==
    [ postgresql |-> <<"p","o","s","t","g","r","e","s","q","l">>,
      mysql |-> <<"m","y","s","q","l">>,
      sqlite |-> <<"s","q","l","i","t","e">>,
      unsupported_database |->
        <<"U","n","s","u","p","p","o","r","t","e","d"," ","d","a","t","a","b","a","s","e"," ",
          "t","y","p","e",":"," ">>,
      openai |-> <<"o","p","e","n","a","i">>,
      anthropic |-> <<"a","n","t","h","r","o","p","i","c">>,
      unsupported_provider |->
        <<"U","n","s","u","p","p","o","r","t","e","d"," ","A","I"," ","p","r","o","v","i","d",
          "e","r",":"," ">> ]

DbTypeSqliteCaps ==
    <<"S","Q","L","i","t","e">>

DbTypeOracle ==
    <<"o","r","a","c","l","e">>

ProviderAzure ==
    <<"a","z","u","r","e">>

\* sql_config['type'] as written in the configuration
DbTypes == {InitText.postgresql, DbTypeSqliteCaps, DbTypeOracle}

\* ai_config['provider'] as written in the configuration
Providers == {InitText.openai, ProviderAzure}

\* create_engine(connection_string) and SQLDatabase(engine): each returns or
\* raises
ConnectOutcomes == [engine_ok : BOOLEAN, wrapper_ok : BOOLEAN]

\* _initialize_llm: the comparison is with the provider as written
initialize_llm(provider) ==
    IF provider \in {InitText.openai, InitText.anthropic} THEN NoExc
    ELSE Raise(InitText.unsupported_provider \o provider)

\* an except clause that clears the wrapper only
connect_engine_kept(c) ==
    IF c.engine_ok /\ c.wrapper_ok THEN [engine |-> "live", db |-> "live"]
    ELSE IF c.engine_ok THEN [engine |-> "live", db |-> "None"]
    ELSE [engine |-> "None", db |-> "None"]

\* the try / except of _initialize_connection: both handles are assigned, or
\* the except clause sets both to None
connect(c) ==
    IF c.engine_ok /\ c.wrapper_ok THEN [engine |-> "live", db |-> "live"]
    ELSE [engine |-> "None", db |-> "None"]

\* the handles of a SQLQuerySystem whose constructor returned
connected(h) ==
    [exc |-> NoExc, engine |-> h.engine, db |-> h.db, steps |-> <<"connect">>]

\* a constructor that lets the failure of the connection out
initialize_connection_raising(db_type, c) ==
    IF Lower(db_type) \in {InitText.postgresql, InitText.mysql, InitText.sqlite}
    THEN IF c.engine_ok /\ c.wrapper_ok
         THEN connected(connect(c))
         ELSE [exc |-> Raise(DbErrorMessage), engine |-> "None", db |-> "None",
               steps |-> <<"connect">>]
    ELSE [exc |-> Raise(InitText.unsupported_database \o Lower(db_type)),
          engine |-> "None", db |-> "None", steps |-> <<>>]

\* SQLQuerySystem.__init__ with _initialize_connection
initialize_connection(db_type, c) ==
    IF Lower(db_type) \in {InitText.postgresql, InitText.mysql, InitText.sqlite}
    THEN connected(connect(c))
    ELSE [exc |-> Raise(InitText.unsupported_database \o Lower(db_type)),
          engine |-> "None", db |-> "None", steps |-> <<>>]

\* test_connection: probe_ok is whether engine.connect and SELECT 1 return
test_connection(eng, probe_ok) ==
    IF eng = "None" THEN FALSE ELSE probe_ok

\* _initialize_memory
initialize_memory(enable_conversation_memory, max_history_length) ==
    IF enable_conversation_memory
    THEN [enabled |-> TRUE, k |-> max_history_length]
    ELSE [enabled |-> FALSE, k |-> 0]

\* the assignments of CustomerServiceChatbot.__init__ before
\* _initialize_components
NewChatbot(keywords, store_type, corpus) ==
    [exc |-> NoExc, llm |-> "None", rag_system |-> "None", sql_system |-> "None",
     ai_provider |-> <<>>, intent_keywords |-> keywords,
     rag |-> [core |-> FreshRag(store_type, corpus), initialized |-> FALSE,
              last |-> NoRagCall],
     engine |-> "None", db |-> "None", memory |-> initialize_memory(FALSE, 0),
     steps |-> <<>>]

\* _initialize_llm returned or raised e
after_llm(self, provider, e) ==
    IF e.raised THEN [self EXCEPT !.exc = e]
    ELSE [self EXCEPT !.llm = "set", !.ai_provider = provider]

\* _initialize_rag_system: r is what initialize_or_load did
after_rag(self, r) ==
    IF self.exc.raised THEN self
    ELSE IF r.exc.raised
    THEN [self EXCEPT !.exc = r.exc, !.steps = @ \o r.steps]
    ELSE [self EXCEPT !.rag_system = "set",
                      !.rag = [core |-> r.self, initialized |-> TRUE, last |-> NoRagCall],
                      !.steps = @ \o r.steps]

\* _initialize_sql_system: s is what SQLQuerySystem(sql_config) did
after_sql(self, s) ==
    IF self.exc.raised THEN self
    ELSE IF s.exc.raised
    THEN [self EXCEPT !.exc = s.exc, !.steps = @ \o s.steps]
    ELSE [self EXCEPT !.sql_system = "set", !.engine = s.engine, !.db = s.db,
                      !.steps = @ \o s.steps]

\* _initialize_memory, the last step of _initialize_components
after_memory(self, m) ==
    IF self.exc.raised THEN self ELSE [self EXCEPT !.memory = m]

\* CustomerServiceChatbot.__init__: cfg is the configuration file, env what the
\* index and the database do while the components are made
chatbot_init(cfg, env) ==
    after_memory(
        after_sql(
            after_rag(
                after_llm(NewChatbot(cfg.keywords, cfg.store_type, env.corpus),
                          cfg.provider, initialize_llm(cfg.provider)),
                initialize_or_load(FreshRag(cfg.store_type, env.corpus),
                                   env.attach_ok, env.build)),
            initialize_connection(cfg.db_type, env.connect)),
        initialize_memory(cfg.enable_conversation_memory, cfg.max_history_length))

\* get_system_status of a constructed chatbot
get_system_status(chatbot, eng, memory_on, probe_ok) ==
    [llm_initialized |-> chatbot.llm # "None",
     rag_system_initialized |-> chatbot.rag_system # "None",
     sql_system_initialized |-> chatbot.sql_system # "None",
     sql_connection_active |-> IF chatbot.sql_system # "None"
                               THEN test_connection(eng, probe_ok) ELSE FALSE,
     memory_enabled |-> memory_on,
     ai_provider |-> chatbot.ai_provider]

\* get_system_status has not been called
NoStatus == [called |-> FALSE]

\* the module-level chatbot of webapp.py before startup_event
NoChatbot ==
    [exists |-> FALSE, llm |-> "None", rag_system |-> "None", sql_system |-> "None",
     ai_provider |-> <<>>]

\* nothing has been constructed yet
NoStartup == [done |-> FALSE, exc |-> NoExc, steps |-> <<>>, connect_failed |-> FALSE]

\* no chatbot has been constructed
NoApp == [chatbot |-> NoChatbot, startup |-> NoStartup, status |-> NoStatus]

\* the serving surface once the constructor returned self
Serving(self, connect_failed) ==
    [chatbot |-> [exists |-> TRUE, llm |-> self.llm, rag_system |-> self.rag_system,
                  sql_system |-> self.sql_system, ai_provider |-> self.ai_provider],
     startup |-> [done |-> TRUE, exc |-> NoExc, steps |-> self.steps,
                  connect_failed |-> connect_failed],
     status |-> NoStatus]

(***************************************************************************)
(* Orchestrator (chatbot.py).                                              *)
(***************************************************************************)
VARIABLES
    app,              \* webapp.py: the chatbot it serves, its startup, its last status
    intent_keywords,  \* self.intent_keywords
    engine,           \* sql_system.engine: "live" or "None"
    db,               \* sql_system.db: "live" or "None"
    memory_enabled,   \* self.memory is not None
    memory_k,         \* ConversationBufferWindowMemory.k
    chat_memory,      \* memory.chat_memory.messages
    turn_log,         \* every turn handed to save_context since the last clear
    n_requests,       \* process_query calls so far
    last_exec,        \* the last direct call of execute_query
    last_call,        \* the last direct call of another method of sql_system
    rag,              \* rag_system: its fields, its corpus and its last call
    req               \* per caller: position in process_query and its locals

vars ==
    <<app, intent_keywords, engine, db, memory_enabled, memory_k, chat_memory, turn_log,
      n_requests, last_exec, last_call, rag, req>>

NoTrace ==
    [handlers |-> <<>>, fell_back |-> FALSE, sql_query |-> <<>>, formatted |-> <<>>,
     sent |-> <<>>, caught |-> NoExc, translate_failed |-> FALSE,
     gate_blocked |-> FALSE, execute_failed |-> FALSE, llm_failed |-> FALSE,
     llm_invoked |-> FALSE, saved |-> FALSE]

NoResult == [query |-> <<>>, intent |-> "none", answer |-> <<>>]

\* arrival is the number of the call among the calls of process_query
IdleReq ==
    [pc |-> "idle", arrival |-> 0, query |-> <<>>, use_llm |-> FALSE, intent |-> "none",
     answer |-> <<>>, exc |-> NoExc, result |-> NoResult, trace |-> NoTrace]

NoExec == [called |-> FALSE, sql_query |-> <<>>, result |-> <<>>]

\* the except clause answering GENERAL instead of calling classify_intent
classify_intent_with_llm_default_general(query, keywords, llm) ==
    IF llm.raised \/ ~llm.is_text
    THEN [intent |-> GENERAL, fell_back |-> TRUE]
    ELSE LET classification == Upper(Strip(llm.text))
         IN [intent |-> IF Contains(TokUserGuide, classification) THEN USER_GUIDE
                        ELSE IF Contains(TokContract, classification) THEN CONTRACT_INFO
                        ELSE GENERAL,
             fell_back |-> FALSE]

\* a parse that tests CONTRACT before USER_GUIDE
classify_intent_with_llm_contract_first(query, keywords, llm) ==
    IF llm.raised \/ ~llm.is_text
    THEN [intent |-> classify_intent(query, keywords), fell_back |-> TRUE]
    ELSE LET classification == Upper(Strip(llm.text))
         IN [intent |-> IF Contains(TokContract, classification) THEN CONTRACT_INFO
                        ELSE IF Contains(TokUserGuide, classification) THEN USER_GUIDE
                        ELSE GENERAL,
             fell_back |-> FALSE]

\* classify_intent_with_llm: the try block and its fallback
classify_intent_with_llm(query, keywords, llm) ==
    IF llm.raised \/ ~llm.is_text
    THEN [intent |-> classify_intent(query, keywords), fell_back |-> TRUE]
    ELSE LET classification == Upper(Strip(llm.text))
         IN [intent |-> IF Contains(TokUserGuide, classification) THEN USER_GUIDE
                        ELSE IF Contains(TokContract, classification) THEN CONTRACT_INFO
                        ELSE GENERAL,
             fell_back |-> FALSE]

\* handle_user_guide_query: nothing is caught
handle_user_guide_query(query, retrieval, llm) ==
    IF retrieval.raised THEN [exc |-> Raise(retrieval.msg), answer |-> <<>>]
    ELSE IF llm.raised THEN [exc |-> Raise(llm.msg), answer |-> <<>>]
    ELSE [exc |-> NoExc, answer |-> llm.text]

\* a handler that turns the failure of the model into its answer
handle_general_query_catching(query, llm) ==
    IF llm.raised THEN [exc |-> NoExc, answer |-> llm.msg]
    ELSE [exc |-> NoExc, answer |-> llm.text]

\* handle_general_query: nothing is caught
handle_general_query(query, llm) ==
    IF llm.raised THEN [exc |-> Raise(llm.msg), answer |-> <<>>]
    ELSE [exc |-> NoExc, answer |-> llm.text]

\* the except clause of handle_contract_query
contract_error_answer(e) == ContractErrorPrefix \o e.msg

\* a try block that goes on to the model after the gate refused the statement
contract_failure_gate_ignored(qf, llm) ==
    IF llm.raised THEN Raise(llm.msg) ELSE NoExc

\* the exception that ends the try block of handle_contract_query early
contract_failure(qf, llm) ==
    IF qf.exc.raised THEN qf.exc
    ELSE IF llm.raised THEN Raise(llm.msg)
    ELSE NoExc

\* the try block of handle_contract_query after query_and_format returned or raised
contract_try_result(qf, llm) ==
    [failure |-> contract_failure(qf, llm),
     content |-> IF contract_failure(qf, llm).raised THEN <<>> ELSE llm.text,
     trace |-> [NoTrace EXCEPT
                  !.handlers = <<"contract">>,
                  !.sql_query = qf.sql_query,
                  !.formatted = qf.formatted,
                  !.sent = qf.sent,
                  !.caught = contract_failure(qf, llm),
                  !.translate_failed = qf.translate_failed,
                  !.gate_blocked = qf.gate_blocked,
                  !.execute_failed = qf.execute_failed,
                  !.llm_invoked = ~qf.exc.raised,
                  !.llm_failed = ~qf.exc.raised /\ llm.raised]]

\* an except clause for the gate's ValueError only
contract_except_value_error_only(t) ==
    IF t.failure.raised /\ t.failure.msg # UnsafeQueryMessage
    THEN [exc |-> t.failure, answer |-> <<>>, trace |-> [t.trace EXCEPT !.caught = NoExc]]
    ELSE [exc |-> NoExc,
          answer |-> IF t.failure.raised THEN contract_error_answer(t.failure)
                     ELSE t.content,
          trace |-> t.trace]

\* `except Exception`: whatever the try block raises is caught and turned into
\* the answer
contract_except(t) ==
    [exc |-> NoExc,
     answer |-> IF t.failure.raised THEN contract_error_answer(t.failure) ELSE t.content,
     trace |-> t.trace]

\* handle_contract_query
handle_contract_query(query, eng, dbw, chain, dbres, llm) ==
    contract_except(contract_try_result(query_and_format(query, eng, dbw, chain, dbres),
                                        llm))

\* a save_context that files the query as the assistant's text and the answer
\* as the user's
save_context_swapped(messages, input, output) ==
    messages \o <<[type |-> "human", content |-> output],
                  [type |-> "ai", content |-> input]>>

\* memory.save_context: the user message, then the assistant message
save_context(messages, input, output) ==
    messages \o <<[type |-> "human", content |-> input],
                  [type |-> "ai", content |-> output]>>

\* a window of the last k messages instead of the last k exchanges
load_memory_variables_k_messages(messages, k) ==
    IF k > 0
    THEN SubSeq(messages, IF Len(messages) > k THEN Len(messages) - k + 1 ELSE 1,
                Len(messages))
    ELSE <<>>

\* memory.load_memory_variables({})['history']: ConversationBufferWindowMemory
\* keeps every message and returns those of the last k exchanges, two each
load_memory_variables(messages, k) ==
    IF k > 0
    THEN SubSeq(messages, IF Len(messages) > 2 * k THEN Len(messages) - 2 * k + 1 ELSE 1,
                Len(messages))
    ELSE <<>>

get_conversation_history(enabled, messages, k) ==
    IF ~enabled THEN <<>>
    ELSE LET history == load_memory_variables(messages, k)
         IN [i \in 1..Len(history) |->
                [role |-> IF history[i].type = "human" THEN "user" ELSE "assistant",
                 content |-> history[i].content]]

\* the dispatch with the two handlers of the elif and else branches swapped
dispatch_swapped(intent) ==
    IF intent = USER_GUIDE THEN "user_guide"
    ELSE IF intent = CONTRACT_INFO THEN "general"
    ELSE "contract"

\* the if / elif / else on intent in process_query
dispatch(intent) ==
    IF intent = USER_GUIDE THEN "user_guide"
    ELSE IF intent = CONTRACT_INFO THEN "contract"
    ELSE "general"

\* process_query is entered with a query and the classification mode
Enter(p, pool, modes) ==
    /\ app.chatbot.exists
    /\ req[p].pc = "idle"
    /\ n_requests < MaxRequests
    /\ \E query \in pool, use_llm \in modes :
          req' = [req EXCEPT ![p] = [IdleReq EXCEPT !.pc = "classify",
                                                    !.arrival = n_requests + 1,
                                                    !.query = query,
                                                    !.use_llm = use_llm]]
    /\ n_requests' = n_requests + 1
    /\ UNCHANGED <<app, intent_keywords, engine, db, memory_enabled, memory_k, chat_memory,
                   turn_log, last_exec, last_call, rag>>

\* a caller that waits for the call before its own to return
EnterWith(p, pool, modes) ==
    /\ \A q \in Procs : req[q].pc = "idle"
    /\ Enter(p, pool, modes)

ProcessQuery(p) == EnterWith(p, Queries, BOOLEAN)

\* the first if / else of process_query
Classify(p) ==
    /\ req[p].pc = "classify"
    /\ \E llm \in LlmClassifyOutcomes :
          \E c \in {IF req[p].use_llm
                    THEN classify_intent_with_llm(req[p].query, intent_keywords, llm)
                    ELSE [intent |-> classify_intent(req[p].query, intent_keywords),
                          fell_back |-> FALSE]} :
             req' = [req EXCEPT ![p].pc = "dispatch",
                                ![p].use_llm = FALSE,
                                ![p].intent = c.intent,
                                ![p].trace.fell_back = c.fell_back]
    /\ UNCHANGED <<app, intent_keywords, engine, db, memory_enabled, memory_k, chat_memory,
                   turn_log, n_requests, last_exec, last_call, rag>>

\* the branch intent == IntentType.USER_GUIDE
HandleUserGuide(p) ==
    /\ req[p].pc = "dispatch"
    /\ dispatch(req[p].intent) = "user_guide"
    /\ \E retrieval \in RetrievalOutcomes, llm \in LlmOutcomes :
          \E h \in {handle_user_guide_query(req[p].query, retrieval, llm)} :
             req' = [req EXCEPT ![p].pc = IF h.exc.raised THEN "raised" ELSE "record",
                                ![p].answer = h.answer,
                                ![p].exc = h.exc,
                                ![p].trace = [NoTrace EXCEPT
                                                !.handlers = <<"user_guide">>,
                                                !.llm_invoked = ~retrieval.raised,
                                                !.llm_failed = ~retrieval.raised /\ llm.raised]]
    /\ UNCHANGED <<app, intent_keywords, engine, db, memory_enabled, memory_k, chat_memory,
                   turn_log, n_requests, last_exec, last_call, rag>>

\* the branch intent == IntentType.CONTRACT_INFO
HandleContract(p) ==
    /\ req[p].pc = "dispatch"
    /\ dispatch(req[p].intent) = "contract"
    /\ \E chain \in ChainOutcomes, dbres \in DbOutcomes, llm \in LlmOutcomes :
          \E h \in {handle_contract_query(req[p].query, engine, db, chain, dbres, llm)} :
             req' = [req EXCEPT ![p].pc = IF h.exc.raised THEN "raised" ELSE "record",
                                ![p].answer = h.answer,
                                ![p].exc = h.exc,
                                ![p].trace = h.trace]
    /\ UNCHANGED <<app, intent_keywords, engine, db, memory_enabled, memory_k, chat_memory,
                   turn_log, n_requests, last_exec, last_call, rag>>

\* the else branch of the dispatch
HandleGeneral(p) ==
    /\ req[p].pc = "dispatch"
    /\ dispatch(req[p].intent) = "general"
    /\ \E llm \in LlmOutcomes :
          \E h \in {handle_general_query(req[p].query, llm)} :
             req' = [req EXCEPT ![p].pc = IF h.exc.raised THEN "raised" ELSE "record",
                                ![p].answer = h.answer,
                                ![p].exc = h.exc,
                                ![p].trace = [NoTrace EXCEPT
                                                !.handlers = <<"general">>,
                                                !.llm_invoked = TRUE,
                                                !.llm_failed = llm.raised]]
    /\ UNCHANGED <<app, intent_keywords, engine, db, memory_enabled, memory_k, chat_memory,
                   turn_log, n_requests, last_exec, last_call, rag>>

\* `if self.memory: self.memory.save_context(...)` and the return of the result
RecordMemory(p) ==
    /\ req[p].pc = "record"
    /\ IF memory_enabled
       THEN /\ chat_memory' = save_context(chat_memory, req[p].query, req[p].answer)
            /\ turn_log' = turn_log \o <<[role |-> "user", content |-> req[p].query],
                                         [role |-> "assistant", content |-> req[p].answer]>>
       ELSE UNCHANGED <<chat_memory, turn_log>>
    /\ req' = [req EXCEPT ![p].pc = "done",
                          ![p].result = [query |-> req[p].query,
                                         intent |-> intent_value(req[p].intent),
                                         answer |-> req[p].answer],
                          ![p].trace = [NoTrace EXCEPT !.handlers = req[p].trace.handlers,
                                                       !.saved = memory_enabled]]
    /\ UNCHANGED <<app, intent_keywords, engine, db, memory_enabled, memory_k, n_requests,
                   last_exec, last_call, rag>>

\* the caller has the result, or the exception, of process_query
Finish(p) ==
    /\ req[p].pc \in {"done", "raised"}
    /\ req' = [req EXCEPT ![p] = IdleReq]
    /\ UNCHANGED <<app, intent_keywords, engine, db, memory_enabled, memory_k, chat_memory,
                   turn_log, n_requests, last_exec, last_call, rag>>

\* clear_history, called between requests
ClearHistory ==
    /\ \A q \in Procs : req[q].pc = "idle"
    /\ memory_enabled
    /\ chat_memory # <<>>
    /\ chat_memory' = <<>>
    /\ turn_log' = <<>>
    /\ UNCHANGED <<app, intent_keywords, engine, db, memory_enabled, memory_k, n_requests,
                   last_exec, last_call, rag, req>>

\* the chatbot of a run whose constructor attached to the persisted index
ChatbotOfInit ==
    [llm |-> "set", rag_system |-> "set", sql_system |-> "set",
     ai_provider |-> InitText.openai, steps |-> <<"attach", "connect">>]

\* the state after CustomerServiceChatbot.__init__
InitWith(configs) ==
    /\ intent_keywords \in configs
    /\ engine \in {"live", "None"}
    /\ db = engine
    /\ memory_enabled \in BOOLEAN
    /\ memory_k \in IF memory_enabled THEN 0..MaxWindow ELSE {0}
    /\ chat_memory = <<>>
    /\ turn_log = <<>>
    /\ n_requests = 0
    /\ last_exec = NoExec
    /\ last_call = NoCall
    /\ rag = RagOfChatbot
    /\ app = Serving(ChatbotOfInit, engine = "None")
    /\ req = [p \in Procs |-> IdleReq]

Init == InitWith({DefaultKeywords})

\* one caller at a time
Next ==
    \/ ProcessQuery(1)
    \/ Classify(1)
    \/ HandleUserGuide(1)
    \/ HandleContract(1)
    \/ HandleGeneral(1)
    \/ RecordMemory(1)
    \/ Finish(1)
    \/ ClearHistory

Spec == Init /\ [][Next]_vars

(***************************************************************************)
(* Keyword classification on its own: every pair of keyword lists over     *)
(* KeywordPool, every query made of QueryFragments.                        *)
(***************************************************************************)
KwPort == <<"p","o","r","t">>
KwContractCap == <<"C","o","n","t","r","a","c","t">>
FragCon == <<"C","o","n">>
FragTract == <<"T","R","A","C","T">>
FragPort == <<"P","o","r","t">>
FragX == <<"x"," ">>
KeywordPool == {KwPort, KwContractCap}

KeywordLists == SeqsUpTo(KeywordPool, MaxKeywords)

KeywordConfigs == [user_guide : KeywordLists, contract : KeywordLists]

QueryFragments == {FragCon, FragTract, FragPort, FragX}

ClassifyQueries == {Concat(fs) : fs \in SeqsUpTo(QueryFragments, MaxFrags)}

InitClassify == InitWith(KeywordConfigs) /\ engine = "None" /\ ~memory_enabled

\* process_query(query) with keyword classification
ProcessQueryKeyword(p) == EnterWith(p, ClassifyQueries, {FALSE})

NextClassify == ProcessQueryKeyword(1) \/ Classify(1)

SpecClassify == InitClassify /\ [][NextClassify]_vars

(***************************************************************************)
(* execute_query on its own: statements made of SqlFragments, with and     *)
(* without a live connection.                                              *)
(***************************************************************************)
SqlSelect == <<"S","E","L","E","C","T"," ","*"," ","F","R","O","M"," ","t">>
SqlDeLe == <<"D","e","L","e">>
SqlTe == <<"T","e"," ">>
SqlDrop == <<" ","d","r","o","p">>
SqlCreatedAt == <<"c","r","e","a","t","e","d","_","a","t">>
SqlWhere == <<" ","W","H","E","R","E"," ","i","d"," ","="," ","1",";">>
SqlFragments == {SqlSelect, SqlDeLe, SqlTe, SqlDrop, SqlCreatedAt, SqlWhere}

SqlStatements == {Concat(fs) : fs \in SeqsUpTo(SqlFragments, MaxSqlFrags)}

InitExec == InitWith({DefaultKeywords}) /\ ~memory_enabled

\* a call of sql_system.execute_query(sql_query)
ExecuteQuery ==
    /\ \E sql_query \in SqlStatements, dbres \in DbOutcomes :
          last_exec' = [called |-> TRUE, sql_query |-> sql_query,
                        result |-> execute_query(sql_query, engine, dbres)]
    /\ UNCHANGED <<app, intent_keywords, engine, db, memory_enabled, memory_k, chat_memory,
                   turn_log, n_requests, last_call, rag, req>>

NextExec == ExecuteQuery

SpecExec == InitExec /\ [][NextExec]_vars

(***************************************************************************)
(* The methods of sql_system called on their own, one call at a time:      *)
(* query_and_format over questions made of QuestionFragments and over the  *)
(* outputs of the query chain, format_results over lists of rows.          *)
(***************************************************************************)
QfExpire ==
    <<"W","h","e","n"," ","d","o","e","s"," ","i","t"," ","e","x","p","i","r","e"," ">>

QfExpiresCaps ==
    <<"E","X","P","I","R","E","S"," ">>

QfModules ==
    <<"M","o","d","u","l","e","s"," ">>

QfCost ==
    <<"c","o","s","t"," ">>

QfDelete ==
    <<"d","e","l","e","t","e"," ","m","y"," ","c","o","n","t","r","a","c","t","?"," ">>

QuestionFragments == {QfExpire, QfExpiresCaps, QfModules, QfCost, QfDelete}

Questions == {Concat(fs) : fs \in SeqsUpTo(QuestionFragments, MaxQuestionFrags)}

ProseExplanation ==
    <<"E","x","p","l","a","n","a","t","i","o","n",".",".",".">>

ProseHere ==
    <<"H","e","r","e"," ","i","s"," ","t","h","e"," ","q","u","e","r","y"," ","y","o","u"," ","a",
    "s","k","e","d"," ","f","o","r",":">>

StatementAll ==
    <<"S","E","L","E","C","T"," ","*"," ","F","R","O","M"," ","c","o","n","t","r","a","c","t","s",
    ";">>

StatementWhere ==
    <<"S","E","L","E","C","T"," ","c","u","s","t","o","m","e","r","_","n","a","m","e","\n","F","R",
    "O","M"," ","c","o","n","t","r","a","c","t","s","\n","W","H","E","R","E"," ","c","o","n","t",
    "r","a","c","t","_","i","d"," ","="," ","1",";">>

StatementCte ==
    <<"W","I","T","H"," ","t"," ","A","S"," ","(","S","E","L","E","C","T"," ","1",")"," ","S","E",
    "L","E","C","T"," ","*"," ","F","R","O","M"," ","t",";">>

Proses == {ProseExplanation, ProseHere}

FenceOpenings == {FenceSql, Fence}

FencedStatements == {StatementAll, StatementWhere}

\* prose, then a fenced block holding one statement
ProseThenFence(prose, opening, statement) ==
    prose \o <<"\n">> \o opening \o <<"\n">> \o statement \o <<"\n">> \o Fence

\* what the query chain returns for a question
TranslatorOutcomes ==
    ChainOutcomes
    \cup { [raised |-> FALSE, text |-> ProseThenFence(prose, opening, statement)] :
             prose \in Proses, opening \in FenceOpenings, statement \in FencedStatements }
    \cup { [raised |-> FALSE, text |-> StatementCte] }

\* the rows of the lists handed to format_results
RowPool == {MockRowsExpiration[1], MockRowsPricing[1], MockRowsModules[2]}

ResultLists == SeqsUpTo(RowPool, MaxRows)

InitSql == InitWith({DefaultKeywords}) /\ ~memory_enabled

\* the query chain is not invoked and the connection not used
NotCalled == [raised |-> FALSE, text |-> <<>>, ok |-> FALSE, rows |-> <<>>]

\* a call of sql_system.query_and_format(question, llm); the chain answers only
\* when there is a database wrapper, the connection only when there is an engine
QueryAndFormat ==
    /\ last_call = NoCall
    /\ \E question \in Questions,
          chain \in IF db = "None" THEN {NotCalled} ELSE TranslatorOutcomes,
          dbres \in IF engine = "None" THEN {NotCalled} ELSE DbOutcomes :
          last_call' = [op |-> "query_and_format",
                        arg |-> [question |-> question, chain |-> chain, dbres |-> dbres],
                        result |-> query_and_format(question, engine, db, chain, dbres)]
    /\ UNCHANGED <<app, intent_keywords, engine, db, memory_enabled, memory_k, chat_memory,
                   turn_log, n_requests, last_exec, rag, req>>

\* a call of sql_system.format_results(results)
FormatResults ==
    /\ last_call = NoCall
    /\ \E results \in ResultLists :
          last_call' = [op |-> "format_results", arg |-> results,
                        result |-> format_results(results)]
    /\ UNCHANGED <<app, intent_keywords, engine, db, memory_enabled, memory_k, chat_memory,
                   turn_log, n_requests, last_exec, rag, req>>

\* the caller is done with what the call returned
CallReturned ==
    /\ last_call # NoCall
    /\ last_call' = NoCall
    /\ UNCHANGED <<app, intent_keywords, engine, db, memory_enabled, memory_k, chat_memory,
                   turn_log, n_requests, last_exec, rag, req>>

NextSql == QueryAndFormat \/ FormatResults \/ CallReturned

SpecSql == InitSql /\ [][NextSql]_vars

(***************************************************************************)
(* Model-assisted classification on its own: direct calls of               *)
(* classify_intent_with_llm, recorded in last_call.                         *)
(***************************************************************************)
ClassContractLower ==
    <<"c","o","n","t","r","a","c","t">>

ClassUnsure ==
    <<"N","o","t"," ","s","u","r","e",".">>

\* what llm.invoke does with the classification prompt
ModelClassifications ==
    LlmClassifyOutcomes
    \cup { [raised |-> FALSE, is_text |-> TRUE, text |-> t] :
             t \in {ClassContractLower, ClassUnsure} }

\* the queries handed to classify_intent_with_llm
LlmClassifyQueries == Queries \cup ClassifyQueries

InitLlmClassify == InitWith({DefaultKeywords}) /\ engine = "None" /\ ~memory_enabled

\* a call of classify_intent_with_llm(query)
ClassifyIntentWithLlm ==
    /\ last_call = NoCall
    /\ \E query \in LlmClassifyQueries, llm \in ModelClassifications :
          last_call' = [op |-> "classify_intent_with_llm",
                        arg |-> [query |-> query, llm |-> llm],
                        result |-> classify_intent_with_llm(query, intent_keywords, llm)]
    /\ UNCHANGED <<app, intent_keywords, engine, db, memory_enabled, memory_k, chat_memory,
                   turn_log, n_requests, last_exec, rag, req>>

NextLlmClassify == ClassifyIntentWithLlm \/ CallReturned

SpecLlmClassify == InitLlmClassify /\ [][NextLlmClassify]_vars

(***************************************************************************)
(* The methods of rag_system called on their own, in any order, on a       *)
(* system constructed over every store type and every corpus.              *)
(***************************************************************************)
\* rag after a method returned or raised r
AfterCall(op, r, initialized) ==
    [core |-> r.self,
     initialized |-> initialized,
     last |-> [op |-> op, exc |-> r.exc, value |-> r.value, steps |-> r.steps]]

\* the state after RAGSystem.__init__, for every configuration and directory
InitRag ==
    /\ app = NoApp
    /\ intent_keywords = DefaultKeywords
    /\ engine = "None"
    /\ db = "None"
    /\ memory_enabled = FALSE
    /\ memory_k = 0
    /\ chat_memory = <<>>
    /\ turn_log = <<>>
    /\ n_requests = 0
    /\ last_exec = NoExec
    /\ last_call = NoCall
    /\ req = [p \in Procs |-> IdleReq]
    /\ rag \in { [core |-> FreshRag(store_type, corpus), initialized |-> FALSE,
                  last |-> NoRagCall] :
                 store_type \in StoreTypes, corpus \in Corpora }

LoadDocuments ==
    /\ \E r \in {load_documents(rag.core)} :
          rag' = AfterCall("load_documents", r, rag.initialized)
    /\ UNCHANGED <<app, intent_keywords, engine, db, memory_enabled, memory_k, chat_memory,
                   turn_log, n_requests, last_exec, last_call, req>>

CreateVectorStore ==
    /\ \E build \in BuildOutcomes :
          \E r \in {create_vector_store(rag.core, build)} :
             rag' = AfterCall("create_vector_store", r, rag.initialized)
    /\ UNCHANGED <<app, intent_keywords, engine, db, memory_enabled, memory_k, chat_memory,
                   turn_log, n_requests, last_exec, last_call, req>>

LoadExistingVectorStore ==
    /\ \E attach_ok \in BOOLEAN :
          \E r \in {load_existing_vector_store(rag.core, attach_ok)} :
             rag' = AfterCall("load_existing_vector_store", r, rag.initialized)
    /\ UNCHANGED <<app, intent_keywords, engine, db, memory_enabled, memory_k, chat_memory,
                   turn_log, n_requests, last_exec, last_call, req>>

\* initialize_or_load; rag.initialized records that it has returned normally
InitializeOrLoad ==
    /\ \E attach_ok \in BOOLEAN, build \in BuildOutcomes :
          \E r \in {initialize_or_load(rag.core, attach_ok, build)} :
             rag' = AfterCall("initialize_or_load", r, rag.initialized \/ ~r.exc.raised)
    /\ UNCHANGED <<app, intent_keywords, engine, db, memory_enabled, memory_k, chat_memory,
                   turn_log, n_requests, last_exec, last_call, req>>

RetrieveRelevantDocuments ==
    /\ \E search \in SearchOutcomes :
          \E r \in {retrieve_relevant_documents(rag.core, search)} :
             rag' = AfterCall("retrieve_relevant_documents", r, rag.initialized)
    /\ UNCHANGED <<app, intent_keywords, engine, db, memory_enabled, memory_k, chat_memory,
                   turn_log, n_requests, last_exec, last_call, req>>

GetContextForQuery ==
    /\ \E search \in SearchOutcomes :
          \E r \in {get_context_for_query(rag.core, search)} :
             rag' = AfterCall("get_context_for_query", r, rag.initialized)
    /\ UNCHANGED <<app, intent_keywords, engine, db, memory_enabled, memory_k, chat_memory,
                   turn_log, n_requests, last_exec, last_call, req>>

NextRag ==
    \/ LoadDocuments
    \/ CreateVectorStore
    \/ LoadExistingVectorStore
    \/ InitializeOrLoad
    \/ RetrieveRelevantDocuments
    \/ GetContextForQuery

SpecRag == InitRag /\ [][NextRag]_vars

(***************************************************************************)
(* Startup of the serving surface: the constructor runs once, then         *)
(* requests and status snapshots are served by the chatbot it made.        *)
(***************************************************************************)
\* config.yaml: the parts the constructor reads
StartupConfigs ==
    { [keywords |-> DefaultKeywords, provider |-> p, store_type |-> s, db_type |-> d,
       enable_conversation_memory |-> m, max_history_length |-> k] :
         p \in Providers, s \in {StoreTypeChroma, StoreTypeOther}, d \in DbTypes,
         m \in BOOLEAN, k \in {MaxWindow} }

\* the user guides directory the server starts with
StartupCorpora ==
    { [exists |-> FALSE, files |-> <<>>],
      [exists |-> TRUE, files |-> <<>>],
      [exists |-> TRUE, files |-> <<FileTxt>>] }

\* what the persisted index, the embedding service and the database do while
\* the constructor runs
StartupEnvs ==
    [corpus : StartupCorpora, attach_ok : BOOLEAN, build : BuildOutcomes,
     connect : ConnectOutcomes]

\* webapp.py before startup_event: chatbot = None
InitStartup ==
    /\ app = NoApp
    /\ intent_keywords = [user_guide |-> <<>>, contract |-> <<>>]
    /\ engine = "None"
    /\ db = "None"
    /\ memory_enabled = FALSE
    /\ memory_k = 0
    /\ chat_memory = <<>>
    /\ turn_log = <<>>
    /\ n_requests = 0
    /\ last_exec = NoExec
    /\ last_call = NoCall
    /\ rag = [core |-> FreshRag(StoreTypeChroma, [exists |-> FALSE, files |-> <<>>]),
              initialized |-> FALSE, last |-> NoRagCall]
    /\ req = [p \in Procs |-> IdleReq]

\* startup_event: chatbot = CustomerServiceChatbot("config.yaml"); an exception
\* of the constructor leaves chatbot unset
Startup ==
    /\ ~app.startup.done
    /\ \E cfg \in StartupConfigs, env \in StartupEnvs :
          \E self \in {chatbot_init(cfg, env)} :
             \E failed \in {InList("connect", self.steps)
                            /\ ~(env.connect.engine_ok /\ env.connect.wrapper_ok)} :
                IF self.exc.raised
                THEN /\ app' = [app EXCEPT !.startup = [done |-> TRUE, exc |-> self.exc,
                                                        steps |-> self.steps,
                                                        connect_failed |-> failed]]
                     /\ UNCHANGED <<intent_keywords, engine, db, memory_enabled, memory_k,
                                    rag>>
                ELSE /\ app' = Serving(self, failed)
                     /\ intent_keywords' = self.intent_keywords
                     /\ engine' = self.engine
                     /\ db' = self.db
                     /\ memory_enabled' = self.memory.enabled
                     /\ memory_k' = self.memory.k
                     /\ rag' = self.rag
    /\ UNCHANGED <<chat_memory, turn_log, n_requests, last_exec, last_call, req>>

\* POST /api/chat once the server has started
Chat(p) ==
    /\ n_requests < MaxStartupRequests
    /\ EnterWith(p, Queries, {FALSE})

\* GET /api/status between requests
GetSystemStatus ==
    /\ app.chatbot.exists
    /\ \A q \in Procs : req[q].pc = "idle"
    /\ \E probe_ok \in BOOLEAN :
          \E s \in {get_system_status(app.chatbot, engine, memory_enabled, probe_ok)} :
             app' = [app EXCEPT !.status = [called |-> TRUE, snapshot |-> s]]
    /\ UNCHANGED <<intent_keywords, engine, db, memory_enabled, memory_k, chat_memory,
                   turn_log, n_requests, last_exec, last_call, rag, req>>

NextStartup ==
    \/ Startup
    \/ Chat(1)
    \/ Classify(1)
    \/ HandleUserGuide(1)
    \/ HandleContract(1)
    \/ HandleGeneral(1)
    \/ RecordMemory(1)
    \/ Finish(1)
    \/ GetSystemStatus

SpecStartup == InitStartup /\ [][NextStartup]_vars

(***************************************************************************)
(* rebuild_vectorstore.py: load the documents, build the index, retrieve.  *)
(* The store keeps what the library puts behind self.vector_store: nothing *)
(* is loaded between the build and the retrieval, so a built store holds   *)
(* the chunks of self.documents, after what the collection already held    *)
(* when the store is Chroma (from_documents opens the persisted collection *)
(* of that name and adds to it; FAISS.from_documents starts empty).        *)
(***************************************************************************)
\* metadata['source'] of the documents of the i-th entry of the directory
PathOf(i) == <<"g","u","i","d","e","s","/">> \o IntToText(i)

\* the chunks of one document: the splitter copies its metadata to each; the
\* page_content of the j-th chunk of page p is written "p<p>c<j>"
chunks_of(d) ==
    [j \in 1..SplitParts |->
        [source |-> PathOf(d.source),
         content |-> <<"p">> \o IntToText(d.page) \o <<"c">> \o IntToText(j)]]

RECURSIVE split_documents(_)
\* text_splitter.split_documents(self.documents)
split_documents(documents) ==
    IF documents = <<>> THEN <<>>
    ELSE chunks_of(Head(documents)) \o split_documents(Tail(documents))

\* the collection in persist_directory before the script runs: empty, or a
\* chunk of a guide that an earlier build put there
PersistedCollections == {<<>>, << [source |-> GuideSource, content |-> GuideContent] >>}

\* what the store behind self.vector_store holds
store_contents(self) ==
    IF self.vector_store = "attached" THEN self.corpus.persisted
    ELSE IF self.vector_store = "built"
    THEN (IF Lower(self.store_type) = RagText.chromadb THEN self.corpus.persisted ELSE <<>>)
         \o split_documents(self.documents)
    ELSE <<>>

\* vector_store.similarity_search(query, k=k) on a store with these contents:
\* it raises, or gives the k nearest entries in some ranking (all of them when
\* there are fewer)
similarity_search(contents, k) ==
    { [raised |-> TRUE, msg |-> EmbedErrorMessage, docs |-> <<>>] }
    \cup { [raised |-> FALSE, msg |-> <<>>, docs |-> [i \in DOMAIN f |-> contents[f[i]]]] :
              f \in { g \in [1..(IF Len(contents) < k THEN Len(contents) ELSE k)
                              -> 1..Len(contents)] :
                         \A i, j \in DOMAIN g : i # j => g[i] # g[j] } }

\* the directories the script is run on
RebuildCorpora ==
    { [exists |-> TRUE, files |-> fs, persisted |-> c] :
         fs \in {<<>>, <<FileTxt>>, <<FileMdCaps>>, <<FileTxtCorrupt, FileTxt>>},
         c \in PersistedCollections }

\* rag = RAGSystem(vector_config, documents_config)
InitRebuild ==
    /\ app = NoApp
    /\ intent_keywords = DefaultKeywords
    /\ engine = "None"
    /\ db = "None"
    /\ memory_enabled = FALSE
    /\ memory_k = 0
    /\ chat_memory = <<>>
    /\ turn_log = <<>>
    /\ n_requests = 0
    /\ last_exec = NoExec
    /\ last_call = NoCall
    /\ req = [p \in Procs |-> IdleReq]
    /\ rag \in { [core |-> FreshRag(store_type, corpus), initialized |-> FALSE,
                  last |-> NoRagCall] :
                 store_type \in {StoreTypeChroma, StoreTypeFaiss}, corpus \in RebuildCorpora }

\* doc_count = rag.load_documents()
RebuildLoad ==
    /\ rag.last.op = "none"
    /\ LoadDocuments

\* rag.create_vector_store()
RebuildCreate ==
    /\ rag.last.op = "load_documents"
    /\ ~rag.last.exc.raised
    /\ CreateVectorStore

\* docs = rag.retrieve_relevant_documents(test_query, k=3)
RebuildRetrieve ==
    /\ rag.last.op = "create_vector_store"
    /\ ~rag.last.exc.raised
    /\ \E search \in similarity_search(store_contents(rag.core), RetrievalK) :
          \E r \in {retrieve_relevant_documents(rag.core, search)} :
             rag' = AfterCall("retrieve_relevant_documents", r, rag.initialized)
    /\ UNCHANGED <<app, intent_keywords, engine, db, memory_enabled, memory_k, chat_memory,
                   turn_log, n_requests, last_exec, last_call, req>>

\* context = rag_system.get_context_for_query(query, k=3) on the rebuilt store
RebuildContext ==
    /\ rag.last.op = "create_vector_store"
    /\ ~rag.last.exc.raised
    /\ \E search \in similarity_search(store_contents(rag.core), RetrievalK) :
          \E r \in {get_context_for_query(rag.core, search)} :
             rag' = AfterCall("get_context_for_query", r, rag.initialized)
    /\ UNCHANGED <<app, intent_keywords, engine, db, memory_enabled, memory_k, chat_memory,
                   turn_log, n_requests, last_exec, last_call, req>>

NextRebuild ==
    \/ RebuildLoad
    \/ RebuildCreate
    \/ RebuildRetrieve
    \/ RebuildContext

SpecRebuild == InitRebuild /\ [][NextRebuild]_vars

(***************************************************************************)
(* Two callers of process_query on one chatbot with nothing serializing    *)
(* them.  save_context hands the user message and then the assistant       *)
(* message to the message list, one append each.                           *)
(***************************************************************************)
\* an append that overwrites the newest message of the list it read
add_message_overwriting(messages, type, content) ==
    IF messages = <<>> THEN <<[type |-> type, content |-> content]>>
    ELSE [messages EXCEPT ![Len(messages)] = [type |-> type, content |-> content]]

\* chat_memory.add_message: one append to the message list
add_message(messages, type, content) ==
    Append(messages, [type |-> type, content |-> content])

\* a chatbot with memory and no live connection
InitConcurrent == Init /\ memory_enabled /\ memory_k = MaxWindow /\ engine = "None"

\* process_query called while another call may be running
ProcessQueryConcurrently(p) == Enter(p, {QueryExpire, QueryHello}, {FALSE})

\* save_context, first half: the user message
SaveInput(p) ==
    /\ req[p].pc = "record"
    /\ memory_enabled
    /\ chat_memory' = add_message(chat_memory, "human", req[p].query)
    /\ turn_log' = Append(turn_log, [role |-> "user", content |-> req[p].query])
    /\ req' = [req EXCEPT ![p].pc = "record_output"]
    /\ UNCHANGED <<app, intent_keywords, engine, db, memory_enabled, memory_k, n_requests,
                   last_exec, last_call, rag>>

\* save_context, second half: the assistant message; then the result
SaveOutput(p) ==
    /\ req[p].pc = "record_output"
    /\ chat_memory' = add_message(chat_memory, "ai", req[p].answer)
    /\ turn_log' = Append(turn_log, [role |-> "assistant", content |-> req[p].answer])
    /\ req' = [req EXCEPT ![p].pc = "done",
                          ![p].result = [query |-> req[p].query,
                                         intent |-> intent_value(req[p].intent),
                                         answer |-> req[p].answer],
                          ![p].trace = [NoTrace EXCEPT !.handlers = req[p].trace.handlers,
                                                       !.saved = TRUE]]
    /\ UNCHANGED <<app, intent_keywords, engine, db, memory_enabled, memory_k, n_requests,
                   last_exec, last_call, rag>>

NextConcurrent ==
    \E p \in Procs :
        \/ ProcessQueryConcurrently(p)
        \/ Classify(p)
        \/ HandleContract(p)
        \/ HandleGeneral(p)
        \/ SaveInput(p)
        \/ SaveOutput(p)
        \/ Finish(p)

SpecConcurrent == InitConcurrent /\ [][NextConcurrent]_vars

(***************************************************************************)
(* Properties.  Case-insensitive containment is stated here letter by      *)
(* letter, independently of str.lower / str.upper above.                   *)
(***************************************************************************)
SameLetter(a, b) ==
    a = b \/ \E i \in 1..26 : {a, b} = {LowerAlpha[i], UpperAlpha[i]}

ContainsIgnoreCase(word, s) ==
    \E off \in 0..(Len(s) - Len(word)) :
        \A j \in 1..Len(word) : SameLetter(s[off + j], word[j])

Denylist ==
    { <<"I","N","S","E","R","T">>,
      <<"U","P","D","A","T","E">>,
      <<"D","E","L","E","T","E">>,
      <<"D","R","O","P">>,
      <<"A","L","T","E","R">>,
      <<"C","R","E","A","T","E">>,
      <<"T","R","U","N","C","A","T","E">> }

TextApologize == <<"I"," ","a","p","o","l","o","g","i","z","e">>
TextSupportTeam == <<"s","u","p","p","o","r","t"," ","t","e","a","m">>
HasDenylisted(s) == \E w \in Denylist : ContainsIgnoreCase(w, s)

\* the entries of a keyword list that occur in the query, in any casing
MatchCount(keywords, query) ==
    Cardinality({i \in 1..Len(keywords) : ContainsIgnoreCase(keywords[i], query)})

UserGuideCount(p) == MatchCount(intent_keywords.user_guide, req[p].query)

ContractCount(p) == MatchCount(intent_keywords.contract, req[p].query)

KeywordRuleIntent(p) ==
    IF ContractCount(p) > UserGuideCount(p) THEN CONTRACT_INFO
    ELSE IF UserGuideCount(p) > 0 THEN USER_GUIDE
    ELSE GENERAL

HandlerOf(intent) ==
    CASE intent = USER_GUIDE -> "user_guide"
      [] intent = CONTRACT_INFO -> "contract"
      [] intent = GENERAL -> "general"

LabelOf(intent) ==
    CASE intent = USER_GUIDE -> "user_guide"
      [] intent = CONTRACT_INFO -> "contract_info"
      [] intent = GENERAL -> "general"

IsApology(answer) ==
    Contains(TextApologize, answer) /\ Contains(TextSupportTeam, answer)

History == get_conversation_history(memory_enabled, chat_memory, memory_k)

\* C1: execute_query of a statement that holds a denylisted keyword in any
\* casing, with or without a live connection, raises the policy violation,
\* returns no rows and sends nothing to the connection; every statement that
\* reaches the connection holds no denylisted keyword.
C1_SafetyGate ==
    last_exec.called =>
        /\ HasDenylisted(last_exec.sql_query) =>
              /\ last_exec.result.exc = Raise(UnsafeQueryMessage)
              /\ last_exec.result.rows = <<>>
              /\ last_exec.result.sent = <<>>
        /\ \A i \in 1..Len(last_exec.result.sent) :
              ~HasDenylisted(last_exec.result.sent[i])

\* a statement with a denylisted keyword in mixed casing was blocked on a live
\* connection
C1_Witness ==
    /\ last_exec.called
    /\ engine = "live"
    /\ HasDenylisted(last_exec.sql_query)
    /\ \A w \in Denylist : ~Contains(w, last_exec.sql_query)
    /\ last_exec.result.exc.raised

\* C2: keyword classification gives CONTRACT_INFO when only contract keywords
\* match, USER_GUIDE when only user-guide keywords match, GENERAL when none
\* matches; matching is case-insensitive containment and each list entry counts
\* once however often it occurs in the query.
C2_KeywordRule ==
    \A p \in Procs :
        req[p].pc = "dispatch" =>
            /\ (ContractCount(p) >= 1 /\ UserGuideCount(p) = 0) =>
                  req[p].intent = CONTRACT_INFO
            /\ (UserGuideCount(p) >= 1 /\ ContractCount(p) = 0) =>
                  req[p].intent = USER_GUIDE
            /\ (UserGuideCount(p) = 0 /\ ContractCount(p) = 0) =>
                  req[p].intent = GENERAL
            /\ keyword_score(intent_keywords.user_guide, Lower(req[p].query))
                  = UserGuideCount(p)
            /\ keyword_score(intent_keywords.contract, Lower(req[p].query))
                  = ContractCount(p)

\* a contract keyword matched only through case folding, and no user-guide
\* keyword matched
C2_Witness ==
    \E p \in Procs :
        /\ req[p].pc = "dispatch"
        /\ req[p].intent = CONTRACT_INFO
        /\ UserGuideCount(p) = 0
        /\ ContractCount(p) >= 1
        /\ \A i \in 1..Len(intent_keywords.contract) :
              ~Contains(intent_keywords.contract[i], req[p].query)

\* C3: equal, positive match counts give USER_GUIDE; CONTRACT_INFO is given
\* only when the contract count is strictly greater.
C3_TieBreak ==
    \A p \in Procs :
        req[p].pc = "dispatch" =>
            /\ (ContractCount(p) = UserGuideCount(p) /\ ContractCount(p) > 0) =>
                  req[p].intent = USER_GUIDE
            /\ req[p].intent = CONTRACT_INFO => ContractCount(p) > UserGuideCount(p)

\* a tie with both counts positive was classified
C3_Witness ==
    \E p \in Procs :
        /\ req[p].pc = "dispatch"
        /\ ContractCount(p) = UserGuideCount(p)
        /\ ContractCount(p) > 0
        /\ req[p].intent = USER_GUIDE

\* C4: classification never ends a request with an error; when the model
\* call fails the intent is the one the keyword rule gives for the query, and
\* the intent is always one of the three.
C4_LlmFallback ==
    \A p \in Procs :
        /\ (req[p].pc = "dispatch" /\ req[p].trace.fell_back) =>
              req[p].intent = KeywordRuleIntent(p)
        /\ req[p].pc \in {"dispatch", "record", "done", "raised"} =>
              req[p].intent \in IntentType
        /\ req[p].pc = "raised" => req[p].trace.handlers # <<>>

\* the model call failed on a contract query and the keyword rule decided
C4_Witness ==
    \E p \in Procs :
        /\ req[p].pc = "dispatch"
        /\ req[p].trace.fell_back
        /\ req[p].intent = CONTRACT_INFO

C5_State ==
    \A p \in Procs :
        /\ req[p].pc \in {"idle", "classify"} =>
              req[p].intent = "none" /\ req[p].trace.handlers = <<>>
        /\ req[p].pc = "dispatch" =>
              req[p].intent \in IntentType /\ req[p].trace.handlers = <<>>
        /\ req[p].pc \in {"record", "done", "raised"} =>
              /\ req[p].intent \in IntentType
              /\ req[p].trace.handlers = <<HandlerOf(req[p].intent)>>
        /\ req[p].pc = "done" =>
              /\ req[p].result.intent = LabelOf(req[p].intent)
              /\ req[p].result.query = req[p].query
              /\ req[p].result.answer = req[p].answer
        /\ req[p].trace.saved => req[p].pc = "done"

C5_Edges ==
    { <<"idle", "classify">>, <<"classify", "dispatch">>, <<"dispatch", "record">>,
      <<"dispatch", "raised">>, <<"record", "done">>, <<"done", "idle">>,
      <<"raised", "idle">> }

C5_Step ==
    /\ \A p \in Procs :
          /\ req'[p].pc # req[p].pc => <<req[p].pc, req'[p].pc>> \in C5_Edges
          /\ req'[p].intent # req[p].intent =>
                req[p].pc = "classify" \/ req'[p].pc = "idle"
    /\ (chat_memory' # chat_memory /\ chat_memory' # <<>>) =>
          \E p \in Procs :
              /\ req[p].pc = "record"
              /\ req'[p].pc = "done"
              /\ chat_memory' = chat_memory \o
                    <<[type |-> "human", content |-> req[p].query],
                      [type |-> "ai", content |-> req[p].answer]>>

\* C5: a request goes from classification to exactly one handler, the one of
\* its intent, then to the recording of the turn and to the result; the intent
\* is assigned once, memory is written only when the handler has returned, and
\* the returned label is the label of the intent that chose the handler. (A
\* handler that raises leaves the path; that exit is C6's.)
C5_RequestPath == []C5_State /\ [][C5_Step]_vars

\* a contract request ran the contract handler, was recorded and returned
C5_Witness ==
    \E p \in Procs :
        /\ req[p].pc = "done"
        /\ req[p].intent = CONTRACT_INFO
        /\ req[p].trace.handlers = <<"contract">>
        /\ req[p].trace.saved
        /\ req[p].result.intent = "contract_info"

\* C6 as claimed: no request ends with an exception instead of a result.
C6_AlwaysYieldsResult == \A p \in Procs : req[p].pc # "raised"

\* C7 as claimed: whichever step of the contract handler fails, the answer
\* is the apologetic message.
C7_AnyFailureApologizes ==
    \A p \in Procs :
        ( /\ req[p].pc = "record"
          /\ req[p].trace.handlers = <<"contract">>
          /\ \/ req[p].trace.translate_failed
             \/ req[p].trace.gate_blocked
             \/ req[p].trace.execute_failed
             \/ req[p].trace.llm_failed )
        => IsApology(req[p].answer)

\* C7 amended: the contract branch never raises; a blocked statement or a
\* failing final model call gives the apologetic message pointing to the support
\* team; a failing translation or execution is absorbed (empty statement, no
\* rows) and the handler goes on to the model, whose text is the answer.
C7_ContractNeverRaises ==
    \A p \in Procs :
        /\ (req[p].intent = CONTRACT_INFO /\ req[p].pc # "dispatch") =>
              req[p].pc \in {"record", "done", "idle"}
        /\ (req[p].pc = "record" /\ req[p].trace.handlers = <<"contract">>) =>
              /\ (req[p].trace.gate_blocked \/ req[p].trace.llm_failed) =>
                    IsApology(req[p].answer)
              /\ (~req[p].trace.gate_blocked /\ ~req[p].trace.llm_failed) =>
                    /\ req[p].trace.llm_invoked
                    /\ \E llm \in LlmOutcomes : ~llm.raised /\ req[p].answer = llm.text
                    /\ ~IsApology(req[p].answer)

\* the execution of a gated statement failed and the model's text is the answer
C7_Witness ==
    \E p \in Procs :
        /\ req[p].pc = "record"
        /\ req[p].trace.handlers = <<"contract">>
        /\ req[p].trace.execute_failed
        /\ ~req[p].trace.llm_failed
        /\ ~IsApology(req[p].answer)

\* C8 as claimed: the text of an exception caught in the contract branch is
\* not part of the answer.
C8_NoRawError ==
    \A p \in Procs :
        req[p].trace.caught.raised =>
            ~Contains(req[p].trace.caught.msg, req[p].answer)

\* C9 as claimed: the history holds at most max_history_length entries.
C9_HistoryWithinWindow == Len(History) <= memory_k

C11_Completes(p) == req[p].pc = "record" /\ req'[p].pc = "done"

C11_State ==
    /\ ~memory_enabled => (chat_memory = <<>> /\ History = <<>>)
    /\ \A p \in Procs :
          req[p].pc = "done" =>
              /\ req[p].result.query = req[p].query
              /\ req[p].result.answer = req[p].answer
              /\ req[p].result.intent \in {"user_guide", "contract_info", "general"}
              /\ memory_enabled =>
                    /\ Len(chat_memory) >= 2
                    /\ chat_memory[Len(chat_memory) - 1] =
                          [type |-> "human", content |-> req[p].result.query]
                    /\ chat_memory[Len(chat_memory)] =
                          [type |-> "ai", content |-> req[p].result.answer]

C11_Step ==
    /\ \A p \in Procs :
          C11_Completes(p) =>
              chat_memory' =
                  IF memory_enabled
                  THEN chat_memory \o
                          <<[type |-> "human", content |-> req[p].query],
                            [type |-> "ai", content |-> req'[p].result.answer]>>
                  ELSE chat_memory
    /\ (\A p \in Procs : ~C11_Completes(p)) => chat_memory' \in {chat_memory, <<>>}

\* C11: with memory enabled, the completion of a request appends exactly one
\* pair to the memory, the original query as the user's message and the returned
\* answer as the assistant's, and no other step appends; with memory disabled
\* nothing is ever recorded, the request still returns its result and the
\* conversation history is the empty list.
C11_RecordMemory == []C11_State /\ [][C11_Step]_vars

\* the second request of a conversation with memory was recorded after the first
C11_Witness ==
    \E p \in Procs :
        /\ memory_enabled
        /\ req[p].pc = "done"
        /\ Len(chat_memory) = 4
        /\ chat_memory[3].content = req[p].result.query
        /\ chat_memory[4].content = req[p].result.answer
        /\ req[p].result.query # req[p].result.answer

TextExpir == <<"e","x","p","i","r">>
TextCustomerName == <<"A","C","M","E"," ","C","o","r","p">>
TextCustomerKey == <<"c","u","s","t","o","m","e","r","_","n","a","m","e",":"," ">>
TextNoResults ==
    <<"N","o"," ","r","e","s","u","l","t","s"," ","f","o","u","n","d",".">>
TextResult == <<"R","e","s","u","l","t">>
TextExpirationTemplate ==
    <<"S","E","L","E","C","T"," ","c","o","n","t","r","a","c","t","_","i","d",","," ","c","u","s",
    "t","o","m","e","r","_","n","a","m","e",","," ","e","x","p","i","r","a","t","i","o","n","_","d",
    "a","t","e"," ","F","R","O","M"," ","c","o","n","t","r","a","c","t","s"," ","W","H","E","R","E",
    " ","c","u","s","t","o","m","e","r","_","n","a","m","e"," ","="," ","'","C","u","s","t","o","m",
    "e","r"," ","N","a","m","e","'",";">>
TextExampleOutput ==
    <<"E","x","p","l","a","n","a","t","i","o","n",".",".",".","\n",Grave,Grave,Grave,"s","q","l",
    "\n","S","E","L","E","C","T"," ","*"," ","F","R","O","M"," ","c","o","n","t","r","a","c","t",
    "s",";","\n",Grave,Grave,Grave>>
TextExampleStatement ==
    <<"S","E","L","E","C","T"," ","*"," ","F","R","O","M"," ","c","o","n","t","r","a","c","t","s",
    ";">>

\* the last call was query_and_format without a live connection
MockCall == last_call.op = "query_and_format" /\ engine = "None" /\ db = "None"

\* C12 as claimed: without a live connection, a question that holds "expir"
\* in any casing is translated, without failure, to the expiration-lookup
\* template.
C12_ExpirTemplate ==
    (MockCall /\ ContainsIgnoreCase(TextExpir, last_call.arg.question)) =>
        /\ last_call.result.sql_query = TextExpirationTemplate
        /\ ~last_call.result.translate_failed

\* C13: without a live connection, whatever the question, the statement of
\* the mock translator holds no denylisted keyword, query_and_format returns
\* without a policy violation, the rows are mock rows and the formatted text
\* holds the customer name.
C13_MockNeverBlocked ==
    MockCall =>
        /\ ~HasDenylisted(last_call.result.sql_query)
        /\ ~last_call.result.exc.raised
        /\ ~last_call.result.gate_blocked
        /\ ~last_call.result.translate_failed
        /\ last_call.result.mock
        /\ last_call.result.rows # <<>>
        /\ Contains(TextCustomerKey \o TextCustomerName, last_call.result.formatted)

\* a question that itself holds a denylisted word went through in mock mode
C13_Witness ==
    /\ MockCall
    /\ HasDenylisted(last_call.arg.question)
    /\ ~last_call.result.exc.raised
    /\ Contains(TextCustomerName, last_call.result.formatted)

\* C14: with a live connection, a statement that passed the safety gate
\* reaches the connection and no execution error leaves execute_query: the
\* handler catches nothing but a failure of the generative model, and when the
\* execution failed the rows are empty, the "no results" text is formatted and
\* the model is invoked to produce the answer.
C14_ExecutionErrorAbsorbed ==
    \A p \in Procs :
        ( /\ req[p].pc = "record"
          /\ req[p].trace.handlers = <<"contract">>
          /\ engine = "live"
          /\ ~HasDenylisted(req[p].trace.sql_query) )
        => /\ req[p].trace.sent = <<req[p].trace.sql_query>>
           /\ ~req[p].trace.gate_blocked
           /\ req[p].trace.llm_invoked
           /\ req[p].trace.caught.raised => req[p].trace.llm_failed
           /\ req[p].trace.execute_failed => req[p].trace.formatted = TextNoResults
           /\ req[p].answer # <<>>

\* the execution of a gated statement failed on the live connection, nothing
\* was caught and the model answered on the "no results" text
C14_Witness ==
    \E p \in Procs :
        /\ req[p].pc = "record"
        /\ engine = "live"
        /\ req[p].trace.execute_failed
        /\ req[p].trace.sent # <<>>
        /\ req[p].trace.formatted = TextNoResults
        /\ ~req[p].trace.caught.raised
        /\ req[p].trace.llm_invoked

RECURSIVE LinesOf(_)
\* the lines of a text, cut at every newline
LinesOf(text) ==
    IF \A i \in 1..Len(text) : text[i] # "\n" THEN <<text>>
    ELSE LET n == CHOOSE i \in 1..Len(text) :
                      text[i] = "\n" /\ \A j \in 1..(i - 1) : text[j] # "\n"
         IN <<SubSeq(text, 1, n - 1)>> \o LinesOf(SubSeq(text, n + 1, Len(text)))

RECURSIVE LinesBefore(_, _)
\* the lines the multi-row layout spends on the rows before row i: per row a
\* blank line, the header and one line per column
LinesBefore(rows, i) ==
    IF i = 1 THEN 0 ELSE LinesBefore(rows, i - 1) + 2 + Len(rows[i - 1])

NumberText == <<"1","2","3","4","5","6","7","8","9">>

ColumnLine(pair) == pair[1] \o <<":", " ">> \o pair[2]

\* C15: format_results gives the "no results" message for zero rows; for
\* exactly one row one "key: value" line per column, in column order, and no
\* numbering; for two or more rows, row by row in order, a "Result i:" header
\* numbered from 1 followed by one indented "key: value" line per column.
C15_FormatPartition ==
    last_call.op = "format_results" =>
        /\ Len(last_call.arg) = 0 => last_call.result = TextNoResults
        /\ Len(last_call.arg) = 1 =>
              /\ Len(LinesOf(last_call.result)) = Len(last_call.arg[1])
              /\ \A j \in 1..Len(last_call.arg[1]) :
                    LinesOf(last_call.result)[j] = ColumnLine(last_call.arg[1][j])
              /\ ~Contains(TextResult, last_call.result)
        /\ Len(last_call.arg) >= 2 =>
              /\ Len(LinesOf(last_call.result)) =
                    LinesBefore(last_call.arg, Len(last_call.arg) + 1)
              /\ \A i \in 1..Len(last_call.arg) :
                    /\ LinesOf(last_call.result)[LinesBefore(last_call.arg, i) + 1] = <<>>
                    /\ LinesOf(last_call.result)[LinesBefore(last_call.arg, i) + 2] =
                          TextResult \o <<" ", NumberText[i], ":">>
                    /\ \A j \in 1..Len(last_call.arg[i]) :
                          LinesOf(last_call.result)[LinesBefore(last_call.arg, i) + 2 + j] =
                              <<" ", " ">> \o ColumnLine(last_call.arg[i][j])

\* three rows with different columns were formatted as three numbered blocks
C15_Witness ==
    /\ last_call.op = "format_results"
    /\ Len(last_call.arg) = 3
    /\ last_call.arg[1] # last_call.arg[2]
    /\ Len(last_call.arg[2]) # Len(last_call.arg[3])
    /\ Contains(TextResult \o <<" ", "3", ":">>, last_call.result)

\* C16: the clean-up of a chain output made of prose, a newline and a fenced
\* block holding one statement gives exactly the statement, with no prose and no
\* fence marker left; in particular the output "Explanation...", opening sql
\* fence, "SELECT * FROM contracts;", closing fence gives
\* "SELECT * FROM contracts;".
C16_FencedCleanup ==
    (last_call.op = "query_and_format" /\ db = "live") =>
        /\ \A prose \in Proses, opening \in FenceOpenings, statement \in FencedStatements :
              ( /\ ~last_call.arg.chain.raised
                /\ last_call.arg.chain.text =
                      prose \o <<"\n">> \o opening \o <<"\n">> \o statement
                      \o <<"\n", Grave, Grave, Grave>> )
              => /\ last_call.result.sql_query = statement
                 /\ ~Contains(<<Grave>>, last_call.result.sql_query)
                 /\ ~Contains(prose, last_call.result.sql_query)
        /\ ( /\ ~last_call.arg.chain.raised
             /\ last_call.arg.chain.text = TextExampleOutput )
           => last_call.result.sql_query = TextExampleStatement

\* the chain returned the example output and the bare statement was executed
C16_Witness ==
    /\ last_call.op = "query_and_format"
    /\ db = "live"
    /\ ~last_call.arg.chain.raised
    /\ last_call.arg.chain.text = TextExampleOutput
    /\ last_call.result.sql_query = TextExampleStatement
    /\ last_call.result.sent = <<TextExampleStatement>>

TextLoadedStatus ==
    <<"L","o","a","d","e","d"," ","e","x","i","s","t","i","n","g"," ","v","e","c","t","o","r"," ",
    "s","t","o","r","e">>
TextCreatedStatus ==
    <<"C","r","e","a","t","e","d"," ","n","e","w"," ","v","e","c","t","o","r"," ","s","t","o","r",
    "e"," ","w","i","t","h"," ">>
TextNotInitialized ==
    <<"V","e","c","t","o","r"," ","s","t","o","r","e"," ","n","o","t"," ","i","n","i","t","i","a",
    "l","i","z","e","d">>
TextNoDocuments ==
    <<"N","o"," ","d","o","c","u","m","e","n","t","s"," ","l","o","a","d","e","d">>
BuildSteps == {"split", "embed", "persist"}

\* the step occurs among the steps of the last call
Did(step) == \E i \in 1..Len(rag.last.steps) : rag.last.steps[i] = step

\* the last call split, embedded or persisted something
DidBuild == \E i \in 1..Len(rag.last.steps) : rag.last.steps[i] \in BuildSteps

\* C17: initialize_or_load opens the persisted index before anything else;
\* when that succeeds nothing is loaded and nothing is built and it reports
\* "Loaded existing vector store"; only otherwise does it read the corpus and
\* then build, the load before every build step, and when it returns it
\* reports "Created new vector store with N documents", N the loaded count.
C17_AttachFirst ==
    rag.last.op = "initialize_or_load" =>
        /\ \A i \in 1..Len(rag.last.steps) :
              rag.last.steps[i] \in {"attach", "attach_failed"} => i = 1
        /\ Did("attach") =>
              /\ rag.last.steps = <<"attach">>
              /\ ~rag.last.exc.raised
              /\ rag.last.value = TextLoadedStatus
              /\ rag.core.vector_store # "None"
        /\ ~Did("attach") =>
              /\ \A i \in 1..Len(rag.last.steps) :
                    rag.last.steps[i] \in BuildSteps =>
                        \E j \in 1..(i - 1) : rag.last.steps[j] = "load"
              /\ \A i, j \in 1..Len(rag.last.steps) :
                    (rag.last.steps[i] = "load" /\ rag.last.steps[j] = "load") => i = j
              /\ ~rag.last.exc.raised =>
                    /\ Did("load")
                    /\ DidBuild
                    /\ rag.last.value =
                          TextCreatedStatus
                          \o <<NumberText[Len(rag.core.documents)]>>
                          \o <<" ","d","o","c","u","m","e","n","t","s">>
                    /\ rag.core.vector_store = "built"

\* the attach failed, the corpus was read, the index built and reported
C17_Witness ==
    /\ rag.last.op = "initialize_or_load"
    /\ rag.last.steps = <<"attach_failed", "load", "split", "embed", "persist">>
    /\ ~rag.last.exc.raised
    /\ Len(rag.core.documents) >= 2
    /\ StartsWith(rag.last.value, TextCreatedStatus)

\* the last call was a similarity search, direct or through get_context_for_query
Searched == rag.last.op \in {"retrieve_relevant_documents", "get_context_for_query"}

C18_State ==
    /\ (Searched /\ rag.core.vector_store = "None") =>
          /\ rag.last.exc.raised
          /\ StartsWith(rag.last.exc.msg, TextNotInitialized)
          /\ rag.last.steps = <<>>
    /\ (Searched /\ rag.core.vector_store # "None") =>
          /\ rag.last.steps = <<"search">>
          /\ ~StartsWith(rag.last.exc.msg, TextNotInitialized)
    /\ (rag.last.op = "initialize_or_load" /\ ~rag.last.exc.raised) =>
          rag.core.vector_store # "None"
    /\ rag.initialized => rag.core.vector_store # "None"

C18_Step == rag.core.vector_store # "None" => rag'.core.vector_store # "None"

\* C18: a similarity search made while no index has been built or loaded
\* fails with the "not initialized" error without calling the index; when
\* initialize_or_load has returned normally the index handle is set, no
\* operation ever unsets a handle, and a search made from then on calls the
\* index and never fails with that error.
C18_NotInitialized == []C18_State /\ [][C18_Step]_vars

\* documents were loaded but no index was built or attached, and the search
\* for a context failed without reaching the index
C18_Witness ==
    /\ rag.last.op = "get_context_for_query"
    /\ rag.core.vector_store = "None"
    /\ rag.core.documents # <<>>
    /\ ~rag.initialized
    /\ StartsWith(rag.last.exc.msg, TextNotInitialized)
    /\ rag.last.steps = <<>>

C19_State ==
    /\ DidBuild => rag.core.documents # <<>>
    /\ ( /\ rag.last.op \in {"create_vector_store", "initialize_or_load"}
         /\ rag.core.documents = <<>>
         /\ ~Did("attach")
         /\ rag.last.op = "initialize_or_load" => Did("load") )
       => /\ rag.last.exc.raised
          /\ StartsWith(rag.last.exc.msg, TextNoDocuments)
          /\ ~DidBuild

C19_Step ==
    (rag'.last.op = "create_vector_store" /\ rag.core.documents = <<>>) =>
        /\ rag'.core = rag.core
        /\ rag'.last.exc.raised
        /\ rag'.last.steps = <<>>

\* C19: a build asked for while no document is loaded (nothing loaded yet, or
\* a load that gave no document) is refused with the "No documents loaded"
\* error: nothing is split, embedded or persisted, and the documents and the
\* index handle are as they were.
C19_BuildNeedsDocuments == []C19_State /\ [][C19_Step]_vars

\* the directory held entries but none gave a document, and the build that
\* initialize_or_load went on to was refused
C19_Witness ==
    /\ rag.last.op = "initialize_or_load"
    /\ rag.last.steps = <<"attach_failed", "load">>
    /\ rag.core.corpus.files # <<>>
    /\ rag.core.documents = <<>>
    /\ rag.core.vector_store = "None"
    /\ StartsWith(rag.last.exc.msg, TextNoDocuments)

TextAllowList == { <<".","t","x","t">>, <<".","M","D">>, <<".","d","o","c","x">> }
TextLoaderSuffixes ==
    { <<".","t","x","t">>, <<".","p","d","f">>, <<".","m","d">>, <<".","h","t","m","l">> }

\* the entry is a file of an allowed suffix, a loader exists for the suffix
\* (whatever its casing) and the loader reads the file
LoadsWell(file) ==
    /\ file.is_file
    /\ file.suffix \in TextAllowList
    /\ \E suffix \in TextLoaderSuffixes :
          Len(suffix) = Len(file.suffix) /\ ContainsIgnoreCase(suffix, file.suffix)
    /\ file.loads

\* the documents of the entries of the directory that load well
ExpectedDocuments ==
    UNION { { [source |-> i, page |-> n] : n \in 1..rag.core.corpus.files[i].pages } :
            i \in {k \in 1..Len(rag.core.corpus.files) :
                      LoadsWell(rag.core.corpus.files[k])} }

\* C20: load_documents returns normally whenever the directory exists; the
\* loaded documents are exactly the documents of the entries that are accepted
\* and load successfully, each once, in the order of the enumeration, wherever
\* the failing entries stand; the returned count is the number of loaded
\* documents.
C20_LoadIsolatesFailures ==
    rag.last.op = "load_documents" =>
        /\ rag.core.corpus.exists <=> ~rag.last.exc.raised
        /\ ~rag.last.exc.raised =>
              /\ {rag.core.documents[i] : i \in 1..Len(rag.core.documents)} =
                    ExpectedDocuments
              /\ \A i, j \in 1..Len(rag.core.documents) :
                    i < j =>
                        \/ rag.core.documents[i].source < rag.core.documents[j].source
                        \/ /\ rag.core.documents[i].source = rag.core.documents[j].source
                           /\ rag.core.documents[i].page < rag.core.documents[j].page
              /\ rag.last.value = Len(rag.core.documents)

\* a file that loads stood before a file whose loader fails, and its documents
\* are loaded
C20_Witness ==
    /\ rag.last.op = "load_documents"
    /\ ~rag.last.exc.raised
    /\ Len(rag.core.corpus.files) >= 2
    /\ LoadsWell(rag.core.corpus.files[1])
    /\ rag.core.corpus.files[2].is_file /\ ~rag.core.corpus.files[2].loads
    /\ rag.last.value >= 1
    /\ rag.core.documents[1].source = 1

(***************************************************************************)
(* Startup and degraded modes.                                             *)
(***************************************************************************)
\* the constructor tried the database connection and the attempt failed
ConnectFailedAtStartup == app.startup.done /\ app.startup.connect_failed

\* C21: when the connection attempt of the constructor fails, the constructor
\* still returns a chatbot whose structured-query system exists and has neither
\* engine nor wrapper (mock mode); a request routed to the contract handler
\* never leaves process_query with an exception and returns an answer; every
\* status snapshot taken afterwards has sql_system_initialized true and
\* sql_connection_active false.
C21_UnreachableDatabaseDegrades ==
    ConnectFailedAtStartup =>
        /\ app.startup.exc = NoExc
        /\ app.chatbot.exists
        /\ app.chatbot.sql_system = "set"
        /\ engine = "None"
        /\ db = "None"
        /\ \A p \in Procs :
              req[p].trace.handlers = <<"contract">> =>
                  /\ req[p].pc \in {"record", "done"}
                  /\ req[p].exc = NoExc
                  /\ req[p].answer # <<>>
                  /\ req[p].pc = "done" =>
                        /\ req[p].result.answer = req[p].answer
                        /\ req[p].result.intent = intent_value(CONTRACT_INFO)
        /\ app.status.called =>
              /\ app.status.snapshot.sql_system_initialized
              /\ ~app.status.snapshot.sql_connection_active

\* a startup whose connection attempt failed, a status snapshot, then a
\* contract request that returned
C21_Witness ==
    /\ ConnectFailedAtStartup
    /\ app.status.called
    /\ req[1].pc = "done"
    /\ req[1].trace.handlers = <<"contract">>

\* the constructor tried to attach to the persisted index and the attempt failed
AttachFailedAtStartup == app.startup.done /\ InList("attach_failed", app.startup.steps)

\* C22 as claimed: whenever the attach to the persisted index fails during
\* construction, the constructor still returns a chatbot, which then serves
\* requests (no startup exception, the chatbot exists and its retrieval system
\* has an index handle).
C22_IndexLoadFailureDegrades ==
    AttachFailedAtStartup =>
        /\ app.startup.exc = NoExc
        /\ app.chatbot.exists
        /\ app.chatbot.rag_system = "set"
        /\ rag.core.vector_store # "None"

(***************************************************************************)
(* Round trip of the index.                                                *)
(***************************************************************************)
\* metadata['source'] of the documents load_documents gave
LoadedSources == { PathOf(rag.core.documents[i].source) : i \in DOMAIN rag.core.documents }

\* the chunks that can be cut from the loaded documents
LoadedChunks == { split_documents(rag.core.documents)[i] :
                     i \in DOMAIN split_documents(rag.core.documents) }

\* "[Source i: source]\ncontent"
TaggedChunk(i, chunk) ==
    <<"[","S","o","u","r","c","e"," ">> \o <<NumberText[i]>> \o <<":", " ">> \o chunk.source
    \o <<"]", "\n">> \o chunk.content

\* the context text of a list of up to three chunks
TaggedContext(chunks) ==
    IF Len(chunks) = 0 THEN <<>>
    ELSE IF Len(chunks) = 1 THEN TaggedChunk(1, chunks[1])
    ELSE IF Len(chunks) = 2
    THEN TaggedChunk(1, chunks[1]) \o <<"\n", "\n">> \o TaggedChunk(2, chunks[2])
    ELSE TaggedChunk(1, chunks[1]) \o <<"\n", "\n">> \o TaggedChunk(2, chunks[2])
         \o <<"\n", "\n">> \o TaggedChunk(3, chunks[3])

\* the script loaded N documents, built the index and retrieved
RoundTripDone(op) ==
    /\ rag.last.op = op
    /\ ~rag.last.exc.raised
    /\ rag.core.vector_store = "built"

\* C23 as claimed: after load_documents and create_vector_store, retrieval with
\* k = 3 returns at most three chunks and the source of each is the source of a
\* loaded document; get_context_for_query returns these chunks, the i-th tagged
\* "[Source i: <its source>]", joined by blank lines.
C23_RoundTrip ==
    /\ RoundTripDone("retrieve_relevant_documents") =>
          /\ Len(rag.last.value) <= 3
          /\ \A i \in DOMAIN rag.last.value : rag.last.value[i].source \in LoadedSources
    /\ RoundTripDone("get_context_for_query") =>
          \E chunks \in SeqsUpTo(LoadedChunks, 3) : rag.last.value = TaggedContext(chunks)

(***************************************************************************)
(* Concurrent callers.                                                     *)
(***************************************************************************)
\* the number of messages of one type in the memory
MessageCount(type) ==
    Cardinality({ i \in DOMAIN chat_memory : chat_memory[i].type = type })

\* the memory holds the user message of p's request and, after it, the
\* assistant message with p's answer
HasTurnsOf(p) ==
    \E i, j \in DOMAIN chat_memory :
        /\ i < j
        /\ chat_memory[i] = [type |-> "human", content |-> req[p].query]
        /\ chat_memory[j] = [type |-> "ai", content |-> req[p].answer]

C24_State ==
    /\ MessageCount("human") - MessageCount("ai")
          = Cardinality({ p \in Procs : req[p].pc = "record_output" })
    /\ \A p \in Procs : req[p].pc = "done" => HasTurnsOf(p)

C24_Step ==
    /\ \A p \in Procs :
          /\ req'[p].pc = "record_output" /\ req[p].pc # "record_output" =>
                /\ req[p].pc = "record"
                /\ chat_memory'
                      = Append(chat_memory, [type |-> "human", content |-> req[p].query])
          /\ req'[p].pc = "done" /\ req[p].pc # "done" =>
                /\ req[p].pc = "record_output"
                /\ chat_memory'
                      = Append(chat_memory, [type |-> "ai", content |-> req[p].answer])
                /\ req'[p].answer = req[p].answer
    /\ chat_memory' # chat_memory =>
          \E p \in Procs : /\ req[p].pc \in {"record", "record_output"}
                           /\ req'[p].pc # req[p].pc
                           /\ \A q \in Procs \ {p} : req'[q] = req[q]

\* C24: with two calls of process_query interleaved on one chatbot, each call
\* that completes adds exactly one user message (its query) and then exactly
\* one assistant message (its answer) to the memory, at the moment its handler
\* has returned, and nothing else adds a message; the order of the pairs is the
\* order in which the handlers finish, not the order of arrival (the witness).
C24_OneTurnEachPerRequest == []C24_State /\ [][C24_Step]_vars

\* the request that arrived second has its pair in the memory before the pair
\* of the request that arrived first
C24_Witness ==
    \E p, q \in Procs :
        /\ req[p].pc = "done"
        /\ req[q].pc = "done"
        /\ req[p].arrival < req[q].arrival
        /\ req[p].query # req[q].query
        /\ chat_memory = << [type |-> "human", content |-> req[q].query],
                            [type |-> "ai", content |-> req[q].answer],
                            [type |-> "human", content |-> req[p].query],
                            [type |-> "ai", content |-> req[p].answer] >>

\* the chain output after the marker, the fences and the prefix were removed:
\* the text the keyword search of natural_language_to_sql runs on
BeforeKeywordSearch(raw) ==
    remove_prefix(strip_fence_end(strip_fence_start(after_marker(Strip(raw)))))

\* the offsets where any of the statement keywords matches
AnyKeywordOffsets(s) ==
    UNION {KeywordMatchOffsets(sql_keywords[k], s) : k \in 1..Len(sql_keywords)}

\* C25: the clean-up keeps the text from the leftmost occurrence of any of the
\* statement keywords to the end, for every chain output; a statement that
\* begins with WITH and contains a later SELECT is kept whole.
C25_LeftmostKeywordKept ==
    ( /\ last_call.op = "query_and_format"
      /\ db = "live"
      /\ ~last_call.arg.chain.raised )
    => /\ AnyKeywordOffsets(BeforeKeywordSearch(last_call.arg.chain.text)) # {}
          => last_call.result.sql_query =
                Strip(DropFirst(BeforeKeywordSearch(last_call.arg.chain.text),
                                Min(AnyKeywordOffsets(
                                        BeforeKeywordSearch(last_call.arg.chain.text)))))
       /\ StartsWith(Upper(last_call.arg.chain.text), sql_keywords[5] \o <<" ">>)
          => last_call.result.sql_query = last_call.arg.chain.text

\* C26: in the contract branch a refused statement and a failed execution end
\* differently: when the gate refuses the translated statement nothing is sent,
\* the model is not invoked and the answer is the apologetic message; when the
\* execution of a gated statement fails, the formatted text is the "no results"
\* message of an empty row list and the model is invoked with it, its text
\* being the answer.
C26_BlockedVersusFailed ==
    \A p \in Procs :
        (req[p].pc = "record" /\ req[p].trace.handlers = <<"contract">>) =>
            /\ req[p].trace.gate_blocked <=> HasDenylisted(req[p].trace.sql_query)
            /\ req[p].trace.gate_blocked =>
                  /\ req[p].trace.sent = <<>>
                  /\ ~req[p].trace.llm_invoked
                  /\ ~req[p].trace.execute_failed
                  /\ IsApology(req[p].answer)
            /\ req[p].trace.execute_failed =>
                  /\ req[p].trace.sent = <<req[p].trace.sql_query>>
                  /\ req[p].trace.formatted = TextNoResults
                  /\ req[p].trace.formatted = format_results(<<>>)
                  /\ req[p].trace.llm_invoked
                  /\ ~req[p].trace.llm_failed =>
                        /\ req[p].answer = AnswerText
                        /\ ~IsApology(req[p].answer)

\* the gate refused the statement the chain returned: no model call, apology
C26_Witness ==
    \E p \in Procs :
        /\ req[p].pc = "record"
        /\ req[p].trace.handlers = <<"contract">>
        /\ db = "live"
        /\ req[p].trace.gate_blocked
        /\ req[p].trace.sent = <<>>
        /\ ~req[p].trace.llm_invoked
        /\ IsApology(req[p].answer)

\* C27: in every state the engine is absent exactly when the database wrapper
\* is absent; a contract request served without them gets the statement of the
\* mock translator, sends nothing to a connection and, when the gate lets the
\* statement through, is answered from at least one mock row; a statement is
\* sent to a connection only when both handles are live.
C27_MockModeAllOrNothing ==
    /\ engine = "None" <=> db = "None"
    /\ \A p \in Procs :
          (req[p].pc = "record" /\ req[p].trace.handlers = <<"contract">>) =>
              /\ db = "None" =>
                    /\ req[p].trace.sql_query = generate_mock_sql(req[p].query)
                    /\ ~req[p].trace.translate_failed
                    /\ req[p].trace.sent = <<>>
                    /\ ~req[p].trace.gate_blocked =>
                          /\ Len(generate_mock_results(req[p].trace.sql_query)) >= 1
                          /\ req[p].trace.formatted =
                                format_results(generate_mock_results(req[p].trace.sql_query))
                          /\ req[p].trace.formatted # TextNoResults
              /\ req[p].trace.sent # <<>> =>
                    /\ engine = "live"
                    /\ db = "live"
                    /\ req[p].trace.sent = <<req[p].trace.sql_query>>

\* the connection attempt of the constructor failed on the wrapper alone, and a
\* contract request was then answered from mock rows
C27_Witness ==
    /\ ConnectFailedAtStartup
    /\ engine = "None"
    /\ db = "None"
    /\ req[1].pc = "record"
    /\ req[1].trace.handlers = <<"contract">>
    /\ req[1].trace.sql_query = generate_mock_sql(req[1].query)
    /\ req[1].trace.sent = <<>>
    /\ req[1].trace.formatted # TextNoResults

RaisedInHandler(p) ==
    /\ req[p].pc = "raised"
    /\ req[p].trace.handlers \in {<<"user_guide">>, <<"general">>}

C29_State ==
    \A p \in Procs :
        /\ ( /\ req[p].trace.handlers \in {<<"user_guide">>, <<"general">>}
             /\ req[p].trace.llm_failed )
           => RaisedInHandler(p)
        /\ RaisedInHandler(p) =>
              /\ req[p].exc.raised
              /\ req[p].exc.msg \in {RetrievalErrorMessage, LlmErrorMessage}
              /\ ~req[p].trace.saved

C29_Step ==
    /\ \A p \in Procs :
          (RaisedInHandler(p) \/ RaisedInHandler(p)') =>
              /\ chat_memory' = chat_memory
              /\ History' = History
    /\ \A p \in Procs :
          (RaisedInHandler(p) /\ req'[p] # req[p]) => req'[p] = IdleReq
    /\ chat_memory' # chat_memory =>
          \/ chat_memory' = <<>>
          \/ \E p \in Procs :
                /\ req[p].pc = "record"
                /\ req'[p].pc = "done"
                /\ ~req[p].exc.raised
                /\ chat_memory' = save_context(chat_memory, req[p].query, req[p].answer)

\* C29: a request of the user guide or general branch whose handler raises (the
\* retrieval or the model call failed) ends with the exception and records no
\* turn: the memory and the history read from it are the same before and after
\* every step of such a request; the memory grows only at the save of a request
\* whose handler returned.
C29_FailedRequestLeavesMemory == []C29_State /\ [][C29_Step]_vars

\* a request failed in its handler after an earlier request had been recorded
C29_Witness ==
    \E p \in Procs :
        /\ RaisedInHandler(p)
        /\ memory_enabled
        /\ memory_k > 0
        /\ Len(chat_memory) = 2
        /\ Len(History) = 2

\* the text classify_intent_with_llm tests: response.content.strip().upper()
ClassificationOf(llm) == Upper(Strip(llm.text))

\* C30: when the model returns an answer, classify_intent_with_llm parses it
\* with a fixed precedence and does not consult the keyword lists: an answer
\* holding USER_GUIDE in any casing gives USER_GUIDE even when it also holds
\* CONTRACT; otherwise an answer holding CONTRACT gives CONTRACT_INFO; any other
\* answer gives GENERAL. The keyword rule decides only when the call fails.
C30_ParsePrecedence ==
    last_call.op = "classify_intent_with_llm" =>
        /\ (~last_call.arg.llm.raised /\ last_call.arg.llm.is_text) =>
              /\ ~last_call.result.fell_back
              /\ ContainsIgnoreCase(TokUserGuide, last_call.arg.llm.text) =>
                    last_call.result.intent = USER_GUIDE
              /\ ( /\ ~ContainsIgnoreCase(TokUserGuide, last_call.arg.llm.text)
                   /\ ContainsIgnoreCase(TokContract, last_call.arg.llm.text) ) =>
                    last_call.result.intent = CONTRACT_INFO
              /\ ( /\ ~ContainsIgnoreCase(TokUserGuide, last_call.arg.llm.text)
                   /\ ~ContainsIgnoreCase(TokContract, last_call.arg.llm.text) ) =>
                    last_call.result.intent = GENERAL
        /\ (last_call.arg.llm.raised \/ ~last_call.arg.llm.is_text) =>
              /\ last_call.result.fell_back
              /\ last_call.result.intent =
                    classify_intent(last_call.arg.query, intent_keywords)

\* the model named both categories for a query the keyword rule files under
\* contracts, and the user guide category won
C30_Witness ==
    /\ last_call.op = "classify_intent_with_llm"
    /\ ~last_call.arg.llm.raised
    /\ Contains(TokContract, ClassificationOf(last_call.arg.llm))
    /\ Contains(TokUserGuide, ClassificationOf(last_call.arg.llm))
    /\ Find(TokContract, ClassificationOf(last_call.arg.llm))
          < Find(TokUserGuide, ClassificationOf(last_call.arg.llm))
    /\ classify_intent(last_call.arg.query, intent_keywords) = CONTRACT_INFO
    /\ last_call.result.intent = USER_GUIDE

====
